---------------------------- MODULE Spec2Model ----------------------------
(***************************************************************************)
(* Model of the dedicated Gomoku session server                            *)
(* (src/src/dedicated_server.py, class DedicatedGomokuServer).             *)
(*                                                                         *)
(* Python objects are modelled by value.  A handler is a function from a   *)
(* server record S = [players, rooms, next_room_id, sent, exc] to the      *)
(* record after the handler, so that nested calls (_send_to_client ->      *)
(* _remove_client -> _broadcast_to_room -> ...) compose as in the code.    *)
(* S.exc is TRUE once a Python exception is propagating: every later       *)
(* statement of the handler is then skipped.  S.sent is the list of        *)
(* messages written to sockets by the handler, in order.                   *)
(*                                                                         *)
(* client_id "client_<n>_<time>" is modelled by n, room_id "room_<n>" by   *)
(* n, and None by 0 (room_id) or -1 (turn_start_time).                     *)
(*                                                                         *)
(* The reference client (src/src/stable_client.py, StableGomokuClient) is  *)
(* modelled apart from the server: its threads step through the source     *)
(* line by line, the server and the network are its environment.           *)
(***************************************************************************)
EXTENDS Integers, Sequences, FiniteSets, TLC

\* ------------------------------------------------------------------ bounds
MaxClients == 3
MaxRooms == 2
BoardSize == 2
MaxMoves == 2
MaxTime == 100
TickStep == 100
KeepaliveStep == 10      \* the clock's step where keepalive is followed
MaxPingDelay == 20       \* how late a keepalive ping may reach the dispatcher

\* ------------------------------------------------------- program constants
max_players == 2
DEFAULT_MOVE_TIME_LIMIT == 60
PING_TIMEOUT == 90
READER_SILENCE == 60     \* _handle_client, line 241
PING_INTERVAL == 30      \* stable_client.py, _ping_loop, line 329

NoRoomId == 0
NoClient == 0
NoTime == -1
Missing == -1     \* data.get of a field the message lacks: None

ClientIds == 1..MaxClients
RoomIds == 1..MaxRooms
Coords == 0..(BoardSize - 1)
Cells == Coords \X Coords
\* stable_client.py
max_reconnect_attempts == 12
JoinedRoomId == 1      \* the room_id of a room_joined, room_created, reconnect_success
MaxConnects == 2       \* successful connect() calls
MaxDisconnectCalls == 1

StoneIds == {1, 2}   \* the player_id values a client sends: 1 = black, 2 = white

\* lobby_join payloads: the player_name, and the session_token (NoToken: the
\* message carries none).
LobbyNames == {"Alice"}
NoToken == "none"
ClientTokens == {NoToken, "client_token"}

VARIABLES
    players,          \* self.players: client_id -> Player
    rooms,            \* self.rooms: room_id -> GameRoom (field live: key present)
    next_client_id,   \* self.next_client_id
    next_room_id,     \* self.next_room_id
    link,             \* per connection: "none" (no socket), "up", "reset" (writes raise)
    now,              \* time.time()
    reaper_running,   \* the _cleanup_loop thread is alive
    sent,             \* socket writes of the last step, in order
    exc,              \* the last step ended with an exception
    threads,          \* a thread inside _remove_client: its position and locals
    socket,           \* client: self.socket, "none" (None) or "open"
    connected,        \* client: self.connected
    running,          \* client: self.running
    current_room_id,  \* client: self.current_room_id (NoRoomId: None)
    is_reconnecting,  \* client: self.is_reconnecting
    wire,             \* client: the connection under self.socket: "none", "up", "down"
    pc,               \* client: each thread's position, a source line
    attempt,          \* client: _reconnect_loop's loop variable, per thread
    saw,              \* client: what a thread's disconnect() read at line 99
    events,           \* client: the connection callbacks fired, in order
    disconnect_calls, \* client: the UI's calls of disconnect()
    ui,               \* game_ui.py: per client of a room, the GomokuUI fields
    inbox,            \* game_ui.py: per client, the relayed messages not yet handled
    g,                \* gomoku.py: the Gomoku object
    server_running,   \* self.running of the server
    message_queue,    \* self.message_queue
    queue_lock,       \* self.queue_lock: Unlocked or the thread that holds it
    messages_to_process, \* _process_messages: what is left of the copied batch
    handled,          \* the (client_id, message) pairs given to _handle_message, in order
    enqueued,         \* per connection, the number of messages its reader has queued
    server_pc,        \* each server thread's position, a source line
    game,             \* gomoku_game.py: the GomokuGame object
    nm,               \* network_manager.py: message_queue and the session of one game
    update_task,      \* network_manager.py: the frame of _process_game_updates
    delivered,        \* network_manager.py: the packages the players were sent
    lobby,            \* lobby_manager.py: the LobbyManager object
    lobby_time        \* lobby_manager.py: int(time.time())

server_vars == <<players, rooms, next_client_id, next_room_id, link, now,
                 reaper_running, sent, exc, threads>>

client_vars == <<socket, connected, running, current_room_id, is_reconnecting,
                 wire, pc, attempt, saw, events, disconnect_calls>>

queue_vars == <<server_running, message_queue, queue_lock, messages_to_process,
                handled, enqueued, server_pc>>

library_vars == <<game, nm, update_task, delivered, lobby, lobby_time>>

app_vars == <<ui, inbox, g, queue_vars, library_vars>>

vars == <<server_vars, client_vars, app_vars>>

\* ------------------------------------------------------------ data classes
EmptyBoard == [cell \in Cells |-> 0]

InitTimerState ==
    [turn_start_time |-> NoTime, elapsed_before_pause |-> 0,
     move_time_limit |-> DEFAULT_MOVE_TIME_LIMIT]

InitGameState == [board |-> EmptyBoard, current_player |-> 1, moves |-> <<>>]

\* A key that is not in self.rooms.
NoRoom ==
    [live |-> FALSE, host_id |-> NoClient, players |-> <<>>,
     game_state |-> InitGameState, timer_state |-> InitTimerState]

GameRoom(host) ==
    [live |-> TRUE, host_id |-> host, players |-> <<host>>,
     game_state |-> InitGameState, timer_state |-> InitTimerState]

DefaultName(n) == "Player_" \o ToString(n)

\* Player.__post_init__, lines 50-51: secrets.token_urlsafe(32), a value no client
\* knows beforehand; one per accepted connection.
MintedToken(n) == "minted_" \o ToString(n)

Player(player_name) ==
    [name |-> player_name, socket |-> "open", room_id |-> NoRoomId, last_ping |-> now,
     session_token |-> MintedToken(next_client_id)]

\* ------------------------------------------------------------ list helpers
InSeq(seq, x) == \E i \in 1..Len(seq) : seq[i] = x

IndexOf(seq, x) == CHOOSE i \in 1..Len(seq) : seq[i] = x /\ \A j \in 1..(i - 1) : seq[j] # x

\* list.remove(x): the first occurrence
ListRemove(seq, x) ==
    LET i == IndexOf(seq, x)
    IN  SubSeq(seq, 1, i - 1) \o SubSeq(seq, i + 1, Len(seq))

DictDel(f, k) == [x \in (DOMAIN f) \ {k} |-> f[x]]

InRooms(S, rid) == rid \in RoomIds /\ S.rooms[rid].live

is_full(room) == Len(room.players) >= max_players

\* A room that never refuses a joiner.
can_join_always(room) == TRUE

can_join(room) == ~is_full(room)

NameOf(S, cid) == IF cid \in DOMAIN S.players THEN S.players[cid].name ELSE "Unknown"

Raise(S) == [S EXCEPT !.exc = TRUE]


\* ---------------------------------------------------------------- messages
RoomInfoMsg(rid, host_name, count, message) ==
    [type |-> "room_info", success |-> TRUE, room_id |-> rid, host_name |-> host_name,
     players |-> count, max_players |-> max_players, message |-> message]

GameEndedDisconnectMsg(disconnected_name, winner_name) ==
    [type |-> "game_ended_disconnect", reason |-> "opponent_disconnected",
     disconnected_player |-> disconnected_name, winner |-> winner_name,
     forfeit |-> TRUE, no_rematch |-> TRUE]

PlayerLeftRoomMsg(player_name) == [type |-> "player_left_room", player_name |-> player_name]

GameStartedMsg(rid, role, your_name, opponent_name, black, white, your_turn) ==
    [type |-> "game_started", room_id |-> rid, your_role |-> role, your_name |-> your_name,
     opponent_name |-> opponent_name, black |-> black, white |-> white,
     your_turn |-> your_turn]

TimerSyncMsg(timer_state) == [type |-> "timer_sync", timer_state |-> timer_state]

GameMoveMsg(player_name, row, col, player_id, timer_state) ==
    [type |-> "game_move", player |-> player_name, row |-> row, col |-> col,
     player_id |-> player_id, timer_state |-> timer_state]

\* ------------------------------------------- sending, removing, broadcasting
RECURSIVE SendToClient(_, _, _)
RECURSIVE RemoveClient(_, _, _)
RECURSIVE BroadcastLoop(_, _, _, _, _)
RECURSIVE RemoveClientRoomInfoLoop(_, _, _, _, _, _)

\* _send_to_client: a write on a reset connection raises inside the try, and the
\* except clause calls _remove_client (an exception raised there propagates).
SendToClient(S, cid, msg) ==
    IF S.exc \/ cid \notin DOMAIN S.players THEN S
    ELSE IF S.players[cid].socket = "none" THEN S
    ELSE IF link[cid] = "reset" THEN RemoveClient(S, cid, FALSE)
    ELSE [S EXCEPT !.sent = Append(@, [to |-> cid] @@ msg)]

\* for client_id in room.players: ... (a list iterator is an index into the live list)
BroadcastLoop(S, rid, msg, exclude_client, i) ==
    IF S.exc \/ i > Len(S.rooms[rid].players) THEN S
    ELSE LET cid == S.rooms[rid].players[i]
             S1 == IF cid # exclude_client
                       /\ cid \in DOMAIN S.players
                       /\ S.players[cid].socket # "none"
                    THEN SendToClient(S, cid, msg)
                    ELSE S
         IN  BroadcastLoop(S1, rid, msg, exclude_client, i + 1)

\* A fan-out that does not skip exclude_client.
BroadcastToRoomAll(S, rid, msg, exclude_client) ==
    IF S.exc \/ ~InRooms(S, rid) THEN S
    ELSE BroadcastLoop(S, rid, msg, NoClient, 1)

\* _broadcast_to_room
BroadcastToRoom(S, rid, msg, exclude_client) ==
    IF S.exc \/ ~InRooms(S, rid) THEN S
    ELSE BroadcastLoop(S, rid, msg, exclude_client, 1)

\* _remove_client, lines 802-809: the first roster member that is not the leaver
WinnerName(S, rid, cid) ==
    LET roster == S.rooms[rid].players
        cands == {i \in 1..Len(roster) : roster[i] # cid /\ roster[i] \in DOMAIN S.players}
    IN  IF cands = {} THEN "Unknown"
        ELSE S.players[roster[CHOOSE i \in cands : \A j \in cands : i <= j]].name

\* _remove_client, lines 837-852
RemoveClientRoomInfoLoop(S, rid, new_host_id, new_host_name, host_message, i) ==
    IF S.exc \/ i > Len(S.rooms[rid].players) THEN S
    ELSE LET r == S.rooms[rid].players[i]
             msg == RoomInfoMsg(rid, new_host_name, Len(S.rooms[rid].players),
                                IF r = new_host_id THEN host_message
                                ELSE new_host_name \o " is the host")
             S1 == IF r \in DOMAIN S.players THEN SendToClient(S, r, msg) ELSE S
         IN  RemoveClientRoomInfoLoop(S1, rid, new_host_id, new_host_name, host_message, i + 1)

\* _remove_client, lines 801-852: the roster is not empty after the removal
RemoveClientNotify(S, cid, player_name, rid) ==
    LET S1 == BroadcastToRoom(S, rid,
                  GameEndedDisconnectMsg(player_name, WinnerName(S, rid, cid)),
                  NoClient)
    IN  IF S1.exc THEN S1
        ELSE IF cid = S1.rooms[rid].host_id
        THEN IF S1.rooms[rid].players = <<>>
             THEN Raise(S1)   \* room.players[0]: IndexError
             ELSE LET new_host_id == S1.rooms[rid].players[1]
                      S2 == [S1 EXCEPT !.rooms[rid].host_id = new_host_id]
                  IN  RemoveClientRoomInfoLoop(S2, rid, new_host_id, NameOf(S2, new_host_id),
                                               "You are now the host!", 1)
        ELSE LET new_host_id == S1.rooms[rid].host_id
             IN  RemoveClientRoomInfoLoop(S1, rid, new_host_id, NameOf(S1, new_host_id),
                                          "Opponent disconnected. You are the host.", 1)

\* _remove_client, lines 790-854: the forfeit cascade in the player's room
RemoveClientRoom(S, cid) ==
    LET rid == S.players[cid].room_id
    IN  IF rid # NoRoomId /\ InRooms(S, rid)
        THEN LET S1 == IF InSeq(S.rooms[rid].players, cid)
                       THEN [S EXCEPT !.rooms[rid].players = ListRemove(@, cid)]
                       ELSE S
                 S2 == IF S1.rooms[rid].players = <<>>
                       THEN [S1 EXCEPT !.rooms[rid].live = FALSE]
                       ELSE RemoveClientNotify(S1, cid, S.players[cid].name, rid)
             IN  IF S2.exc THEN S2 ELSE [S2 EXCEPT !.players[cid].room_id = NoRoomId]
        ELSE S

\* _remove_client, lines 775-786
MarkDisconnected(S, cid) ==
    [S EXCEPT !.players[cid].socket = "none", !.players[cid].last_ping = now]

\* _remove_client, line 857
DelPlayer(S, cid) == IF S.exc THEN S ELSE [S EXCEPT !.players = DictDel(@, cid)]

\* _remove_client, lines 768-773
RemoveClientGuard(S, cid, force) ==
    /\ cid \in DOMAIN S.players
    /\ (force \/ S.players[cid].socket # "none")

RemoveClient(S, cid, force) ==
    IF S.exc \/ ~RemoveClientGuard(S, cid, force) THEN S
    ELSE DelPlayer(RemoveClientRoom(MarkDisconnected(S, cid), cid), cid)

\* ------------------------------------------------------------- room listing
RoomEntry(S, rid) ==
    [room_id |-> rid, host_name |-> NameOf(S, S.rooms[rid].host_id),
     players |-> Len(S.rooms[rid].players), max_players |-> max_players]

\* A room list that also lists the full rooms.
RoomsDataAll(S) ==
    LET F[n \in 0..MaxRooms] ==
            IF n = 0 THEN <<>>
            ELSE IF S.rooms[n].live
                 THEN Append(F[n - 1], RoomEntry(S, n))
                 ELSE F[n - 1]
    IN  F[MaxRooms]

\* _send_room_list, lines 502-512: self.rooms.values() in insertion order
RoomsData(S) ==
    LET F[n \in 0..MaxRooms] ==
            IF n = 0 THEN <<>>
            ELSE IF S.rooms[n].live /\ can_join(S.rooms[n])
                 THEN Append(F[n - 1], RoomEntry(S, n))
                 ELSE F[n - 1]
    IN  F[MaxRooms]

\* _send_room_list
SendRoomList(S, cid) ==
    IF S.exc THEN S
    ELSE SendToClient(S, cid, [type |-> "room_list", rooms |-> RoomsData(S)])

RECURSIVE BroadcastRoomListLoop(_, _, _)
BroadcastRoomListLoop(S, players_copy, i) ==
    IF S.exc \/ i > MaxClients THEN S
    ELSE LET S1 == IF i \in players_copy
                       /\ i \in DOMAIN S.players
                       /\ S.players[i].room_id = NoRoomId
                    THEN SendRoomList(S, i)
                    ELSE S
         IN  BroadcastRoomListLoop(S1, players_copy, i + 1)

\* _broadcast_room_list
BroadcastRoomList(S) ==
    IF S.exc THEN S ELSE BroadcastRoomListLoop(S, DOMAIN S.players, 1)

\* -------------------------------------------------------------- _start_game
StartGame(S, rid) ==
    IF S.exc \/ ~InRooms(S, rid) THEN S
    ELSE IF Len(S.rooms[rid].players) >= 2
    THEN LET black_player_id == S.rooms[rid].players[1]
             white_player_id == S.rooms[rid].players[2]
             black_player_name == NameOf(S, black_player_id)
             white_player_name == NameOf(S, white_player_id)
             S1 == SendToClient(S, black_player_id,
                       GameStartedMsg(rid, "black", black_player_name, white_player_name,
                                      black_player_name, white_player_name, TRUE))
         IN  SendToClient(S1, white_player_id,
                 GameStartedMsg(rid, "white", white_player_name, black_player_name,
                                black_player_name, white_player_name, FALSE))
    ELSE S

\* --------------------------------------------- _handle_message: lobby_join
HandleLobbyJoin(S, cid, player_name, session_token) ==
    LET S1 == [S EXCEPT !.players[cid].name = player_name]
        S2 == SendToClient(S1, cid,
                  [type |-> "lobby_joined", client_id |-> cid, name |-> player_name,
                   session_token |-> S1.players[cid].session_token])
    IN  SendRoomList(S2, cid)

\* A room_create that leaves the creator's room_id as it was.
HandleRoomCreateNoRoomId(S, cid) ==
    LET rid == S.next_room_id
        S1 == [S EXCEPT !.next_room_id = @ + 1,
                        !.rooms[rid] = GameRoom(cid)]
        S2 == SendToClient(S1, cid, RoomInfoMsg(rid, S1.players[cid].name, 1, ""))
    IN  BroadcastRoomList(S2)

\* -------------------------------------------- _handle_message: room_create
HandleRoomCreate(S, cid) ==
    LET rid == S.next_room_id
        S1 == [S EXCEPT !.next_room_id = @ + 1,
                        !.rooms[rid] = GameRoom(cid),
                        !.players[cid].room_id = rid]
        S2 == SendToClient(S1, cid, RoomInfoMsg(rid, S1.players[cid].name, 1, ""))
    IN  BroadcastRoomList(S2)

\* ---------------------------------------------- _handle_message: room_join
RECURSIVE RoomJoinNotifyLoop(_, _, _, _, _)
RoomJoinNotifyLoop(S, rid, cid, host_name, i) ==
    IF S.exc \/ i > Len(S.rooms[rid].players) THEN S
    ELSE LET other_client_id == S.rooms[rid].players[i]
             S1 == IF other_client_id # cid
                    THEN SendToClient(S, other_client_id,
                             RoomInfoMsg(rid, host_name, Len(S.rooms[rid].players), ""))
                    ELSE S
         IN  RoomJoinNotifyLoop(S1, rid, cid, host_name, i + 1)

HandleRoomJoin(S, cid, rid) ==
    IF InRooms(S, rid) /\ can_join(S.rooms[rid])
    THEN LET S1 == [S EXCEPT !.rooms[rid].players = Append(@, cid),
                             !.players[cid].room_id = rid]
             host_name == NameOf(S1, S1.rooms[rid].host_id)
             S2 == SendToClient(S1, cid,
                       RoomInfoMsg(rid, host_name, Len(S1.rooms[rid].players), ""))
             S3 == RoomJoinNotifyLoop(S2, rid, cid, host_name, 1)
             S4 == IF ~S3.exc /\ is_full(S3.rooms[rid]) THEN StartGame(S3, rid) ELSE S3
         IN  BroadcastRoomList(S4)
    ELSE S

\* -------------------------------------------------------------- _leave_room
RECURSIVE LeaveRoomHostLoop(_, _, _, _, _)
LeaveRoomHostLoop(S, rid, new_host_id, new_host_name, i) ==
    IF S.exc \/ i > Len(S.rooms[rid].players) THEN S
    ELSE LET remaining_client_id == S.rooms[rid].players[i]
             msg == RoomInfoMsg(rid, new_host_name, Len(S.rooms[rid].players),
                                IF remaining_client_id = new_host_id
                                THEN "You are now the host!"
                                ELSE new_host_name \o " is now the host")
             S1 == IF remaining_client_id \in DOMAIN S.players
                    THEN SendToClient(S, remaining_client_id, msg)
                    ELSE S
         IN  LeaveRoomHostLoop(S1, rid, new_host_id, new_host_name, i + 1)

\* _leave_room, lines 731-760
LeaveRoomManage(S, cid, rid) ==
    IF S.exc THEN S
    ELSE IF S.rooms[rid].players = <<>>
    THEN IF S.rooms[rid].live
         THEN [S EXCEPT !.rooms[rid].live = FALSE]
         ELSE Raise(S)   \* del self.rooms[room_id]: KeyError
    ELSE IF cid = S.rooms[rid].host_id /\ Len(S.rooms[rid].players) > 0
    THEN LET new_host_id == S.rooms[rid].players[1]
             S1 == [S EXCEPT !.rooms[rid].host_id = new_host_id]
         IN  LeaveRoomHostLoop(S1, rid, new_host_id, NameOf(S1, new_host_id), 1)
    ELSE S

LeaveRoom(S, cid) ==
    IF S.exc \/ cid \notin DOMAIN S.players THEN S
    ELSE IF S.players[cid].room_id = NoRoomId THEN S
    ELSE LET rid == S.players[cid].room_id
         IN  IF ~InRooms(S, rid) THEN S
             ELSE LET S1 == IF InSeq(S.rooms[rid].players, cid)
                            THEN [S EXCEPT !.rooms[rid].players = ListRemove(@, cid)]
                            ELSE S
                      S2 == [S1 EXCEPT !.players[cid].room_id = NoRoomId]
                      S3 == BroadcastToRoom(S2, rid, PlayerLeftRoomMsg(S2.players[cid].name),
                                            NoClient)
                      S4 == LeaveRoomManage(S3, cid, rid)
                  IN  BroadcastRoomList(SendRoomList(S4, cid))

\* A commit that leaves the room's timer as it was.
CommitMoveKeepsTimer(room, player_name, row, col, player_id, board_sync) ==
    LET board0 == IF board_sync THEN EmptyBoard ELSE room.game_state.board
    IN  [room EXCEPT
            !.game_state.board = [board0 EXCEPT ![<<row, col>>] = player_id],
            !.game_state.moves = Append(@, [player |-> player_name, row |-> row, col |-> col]),
            !.game_state.current_player = 3 - @]

\* -------------------------------------------------------- _handle_game_move
\* lines 603-623: the optional board sync, the write of player_id into the cell,
\* the move log entry, the turn flip and the timer reset
CommitMove(room, player_name, row, col, player_id, board_sync) ==
    LET board0 == IF board_sync THEN EmptyBoard ELSE room.game_state.board
    IN  [room EXCEPT
            !.game_state.board = [board0 EXCEPT ![<<row, col>>] = player_id],
            !.game_state.moves = Append(@, [player |-> player_name, row |-> row, col |-> col]),
            !.game_state.current_player = 3 - @,
            !.timer_state = [turn_start_time |-> now,
                             elapsed_before_pause |-> 0,
                             move_time_limit |-> room.timer_state.move_time_limit]]

\* lines 580-591: the only conditions under which the handler returns early
MoveAdmitted(S, cid) ==
    /\ cid \in DOMAIN S.players
    /\ S.players[cid].socket # "none"
    /\ S.players[cid].room_id # NoRoomId
    /\ InRooms(S, S.players[cid].room_id)

\* lines 593-607: data.get("row") or data.get("col") is None.  The board sync of
\* lines 603-604 has been applied when the index at line 607 raises TypeError.
MoveFieldMissing(S, cid, board_sync) ==
    LET rid == S.players[cid].room_id
    IN  Raise([S EXCEPT !.rooms[rid].game_state.board =
                            IF board_sync THEN EmptyBoard ELSE @])

HandleGameMove(S, cid, row, col, player_id, board_sync) ==
    IF ~MoveAdmitted(S, cid) THEN S
    ELSE IF row = Missing \/ col = Missing THEN MoveFieldMissing(S, cid, board_sync)
    ELSE LET rid == S.players[cid].room_id
             player_name == S.players[cid].name
             S1 == [S EXCEPT !.rooms[rid] =
                        CommitMove(@, player_name, row, col, player_id, board_sync)]
             timer_state == S1.rooms[rid].timer_state
             S2 == SendToClient(S1, cid, TimerSyncMsg(timer_state))
         IN  BroadcastToRoom(S2, rid,
                 GameMoveMsg(player_name, row, col, player_id, timer_state), cid)

\* ------------------------------------------ _handle_message: player_resign
RECURSIVE ResignLoop(_, _, _, _, _)
ResignLoop(S, rid, cid, resigned_player, i) ==
    IF S.exc \/ i > Len(S.rooms[rid].players) THEN S
    ELSE LET other_id == S.rooms[rid].players[i]
             msg == IF other_id = cid
                    THEN [type |-> "resign_ack", player |-> resigned_player]
                    ELSE [type |-> "player_resign", player |-> resigned_player]
         IN  ResignLoop(SendToClient(S, other_id, msg), rid, cid, resigned_player, i + 1)

HandlePlayerResign(S, cid, resigned_player) ==
    IF S.players[cid].room_id = NoRoomId \/ ~InRooms(S, S.players[cid].room_id) THEN S
    ELSE ResignLoop(S, S.players[cid].room_id, cid, resigned_player, 1)

\* ------------------------------------------------- _handle_new_game_request
RECURSIVE ForwardLoop(_, _, _, _, _)
ForwardLoop(S, rid, cid, msg, i) ==
    IF S.exc \/ i > Len(S.rooms[rid].players) THEN S
    ELSE LET other_client_id == S.rooms[rid].players[i]
             S1 == IF other_client_id # cid THEN SendToClient(S, other_client_id, msg) ELSE S
         IN  ForwardLoop(S1, rid, cid, msg, i + 1)

HandleNewGameRequest(S, cid) ==
    IF S.players[cid].room_id = NoRoomId \/ ~InRooms(S, S.players[cid].room_id) THEN S
    ELSE LET rid == S.players[cid].room_id
         IN  ForwardLoop(S, rid, cid,
                 [type |-> "new_game_request", room_id |-> rid,
                  requester |-> S.players[cid].name], 1)

\* ------------------------------------------------ _handle_new_game_response
HandleNewGameResponse(S, cid, accepted) ==
    IF S.players[cid].room_id = NoRoomId \/ ~InRooms(S, S.players[cid].room_id) THEN S
    ELSE LET rid == S.players[cid].room_id
         IN  IF accepted
             THEN StartGame([S EXCEPT !.rooms[rid].game_state = InitGameState], rid)
             ELSE ForwardLoop(S, rid, cid,
                      [type |-> "new_game_response", room_id |-> rid, accepted |-> FALSE,
                       message |-> S.players[cid].name \o " declined the new game"], 1)

\* ------------------------------------------------------------------- steps
\* The server record at the start of a step.
Server ==
    [players |-> players, rooms |-> rooms, next_room_id |-> next_room_id,
     sent |-> <<>>, exc |-> FALSE]

\* _handle_message, lines 277-284: the sender is registered; stamp last_ping
Dispatched(cid) == [Server EXCEPT !.players[cid].last_ping = now]

\* A key deleted from self.rooms leaves no object behind; the socket of a player
\* deleted from self.players was closed (line 780).
LiveRooms(rs) == [r \in RoomIds |-> IF rs[r].live THEN rs[r] ELSE NoRoom]

Finish(S) ==
    /\ players' = S.players
    /\ rooms' = LiveRooms(S.rooms)
    /\ next_room_id' = S.next_room_id
    /\ sent' = S.sent
    /\ exc' = S.exc
    /\ link' = [c \in ClientIds |-> IF c \in DOMAIN S.players THEN link[c] ELSE "none"]

\* The threads that call _remove_client on their own: a connection's reader
\* (line 249) and the reaper (line 875).
Threads == {"reader", "reaper"}

\* A thread outside _remove_client; inside, the record holds the call's arguments
\* and locals (player.name, room_id) and the reaper's pending clients_to_remove.
IdleThread ==
    [pc |-> "idle", client_id |-> NoClient, force |-> FALSE, player_name |-> "",
     room_id |-> NoRoomId, clients_to_remove |-> <<>>]

\* _process_messages hands a queued (client_id, message) to _handle_message, which
\* returns at once when the sender is no longer registered.
CanDispatch(cid) == cid \in DOMAIN players

\* ============================================================ stable_client.py
\* StableGomokuClient and its threads, statement by statement: no lock guards the
\* object's fields.  A position (pc) is the source line the thread is at.
User == <<"user", 1>>
Receiver == <<"receive", 1>>
\* The thread the n-th connect() starts for _ping_loop, and the n-th
\* _attempt_reconnection for _reconnect_loop.
Pinger(n) == <<"ping", n>>
Reconnector(n) == <<"reconnect", n>>
Pingers == {Pinger(n) : n \in 1..MaxConnects}
Reconnectors == {Reconnector(n) : n \in 1..MaxConnects}
ClientThreads == {User, Receiver} \cup Pingers \cup Reconnectors

\* A callback the client fired, with its arguments.
Event(name, args) == [name |-> name, args |-> args]

\* How often the callback `name` has fired.
Fired(name) == Cardinality({i \in 1..Len(events) : events[i].name = name})

\* The object's fields, and the threads' positions and locals.
self ==
    [socket |-> socket, connected |-> connected, running |-> running,
     current_room_id |-> current_room_id, is_reconnecting |-> is_reconnecting,
     wire |-> wire, pc |-> pc, attempt |-> attempt, saw |-> saw,
     events |-> events, disconnect_calls |-> disconnect_calls]

\* A client step ends with the object c; the server is not involved.
Become(c) ==
    /\ socket' = c.socket
    /\ connected' = c.connected
    /\ running' = c.running
    /\ current_room_id' = c.current_room_id
    /\ is_reconnecting' = c.is_reconnecting
    /\ wire' = c.wire
    /\ pc' = c.pc
    /\ attempt' = c.attempt
    /\ saw' = c.saw
    /\ events' = c.events
    /\ disconnect_calls' = c.disconnect_calls
    /\ UNCHANGED <<server_vars, app_vars>>

\* self.connection_callbacks[name](*args)
Fire(c, name, args) == [c EXCEPT !.events = Append(@, Event(name, args))]

\* __init__, lines 19-49
ClientInit ==
    /\ socket = "none"
    /\ connected = FALSE
    /\ running = FALSE
    /\ current_room_id = NoRoomId
    /\ is_reconnecting = FALSE
    /\ wire = "none"
    /\ pc = [t \in ClientThreads |-> IF t = User THEN "idle" ELSE "none"]
    /\ attempt = [t \in Reconnectors |-> 0]
    /\ saw = [t \in ClientThreads |-> FALSE]
    /\ events = <<>>
    /\ disconnect_calls = 0

\* ------------------------------------------------------------------ connect
\* Where connect() returns to: the reconnect loop tests its result at line 297.
AfterConnect(t, ok) ==
    IF t \in Reconnectors THEN (IF ok THEN "301" ELSE "311") ELSE "idle"

\* The connections made so far: socket.connect has returned (line 64).
Connects ==
    Fired("connect") + Cardinality({t \in ClientThreads : pc[t] \in {"70", "71", "72", "76"}})

\* The UI calls connect() once.
UserConnect ==
    /\ pc[User] = "idle"
    /\ pc[Receiver] = "none"
    /\ events = <<>>
    /\ Become([self EXCEPT !.pc[User] = "62"])

\* lines 62-63
Connect62(t) ==
    /\ pc[t] = "62"
    /\ Become([self EXCEPT !.socket = "open", !.pc[t] = "64"])

\* line 64: socket.connect succeeds (ok) or raises; on a socket another thread
\* has set to None it raises
Connect64(t, ok) ==
    /\ pc[t] = "64"
    /\ ok => Connects < MaxConnects
    /\ IF ok /\ socket # "none"
       THEN Become([self EXCEPT !.wire = "up", !.pc[t] = "70"])
       ELSE Become([self EXCEPT !.pc[t] = "91"])

\* line 70
Connect70(t) ==
    /\ pc[t] = "70"
    /\ Become([self EXCEPT !.connected = TRUE, !.pc[t] = "71"])

\* line 71
Connect71(t) ==
    /\ pc[t] = "71"
    /\ Become([self EXCEPT !.running = TRUE, !.pc[t] = "72"])

\* lines 72-73
Connect72(t) ==
    /\ pc[t] = "72"
    /\ Become([self EXCEPT !.is_reconnecting = FALSE, !.pc[t] = "76"])

\* lines 76-88: the receive and ping threads start, the connect callback fires
Connect76(t) ==
    /\ pc[t] = "76"
    /\ pc[Receiver] \in {"none", "done"}
    /\ Become(Fire([self EXCEPT !.pc[Receiver] = "172",
                                !.pc[Pinger(Fired("connect") + 1)] = "328",
                                !.pc[t] = AfterConnect(t, TRUE)],
                   "connect", <<>>))

\* lines 90-94
Connect91(t) ==
    /\ pc[t] = "91"
    /\ Become(Fire([self EXCEPT !.pc[t] = AfterConnect(t, FALSE)], "error", <<>>))

\* --------------------------------------------------------------- disconnect
\* Where disconnect() returns to: the UI; the end of _receive_loop (line 207);
\* send_message's return False (line 136) in _ping_loop and in _reconnect_loop.
AfterDisconnect(t) ==
    IF t = User THEN "idle"
    ELSE IF t = Receiver THEN "done"
    ELSE IF t \in Pingers THEN "328"
    ELSE "311"

\* The UI calls disconnect().
UserDisconnect ==
    /\ pc[User] = "idle"
    /\ events # <<>>
    /\ disconnect_calls < MaxDisconnectCalls
    /\ Become([self EXCEPT !.disconnect_calls = @ + 1, !.pc[User] = "99"])

\* lines 99-100; saw[t] is what this call read at line 99
Disconnect99(t) ==
    /\ pc[t] = "99"
    /\ Become([self EXCEPT !.running = IF is_reconnecting THEN @ ELSE FALSE,
                           !.saw[t] = is_reconnecting,
                           !.pc[t] = "102"])

\* line 102
Disconnect102(t) ==
    /\ pc[t] = "102"
    /\ Become([self EXCEPT !.connected = FALSE, !.pc[t] = "104"])

\* lines 104-109
Disconnect104(t) ==
    /\ pc[t] = "104"
    /\ Become([self EXCEPT !.socket = "none", !.pc[t] = "114"])

\* lines 114-115
Disconnect114(t) ==
    /\ pc[t] = "114"
    /\ LET c == [self EXCEPT !.pc[t] = AfterDisconnect(t)]
       IN  Become(IF is_reconnecting THEN c ELSE Fire(c, "disconnect", <<>>))

\* ------------------------------------------------------------ _receive_loop
\* The connection under self.socket dies: the peer or the network is gone.
WireDown ==
    /\ wire = "up"
    /\ Become([self EXCEPT !.wire = "down"])

\* line 172
Receive172 ==
    /\ pc[Receiver] = "172"
    /\ Become([self EXCEPT !.pc[Receiver] = IF running /\ connected THEN "175" ELSE "200"])

\* _handle_message, lines 220-241: what a message does to the object
HandleMessage(c, msg_type) ==
    IF msg_type \in {"room_created", "room_joined"}
    THEN [c EXCEPT !.current_room_id = JoinedRoomId]
    ELSE IF msg_type = "room_closed"
    THEN [c EXCEPT !.current_room_id = NoRoomId]
    ELSE IF msg_type = "reconnect_success"
    THEN [c EXCEPT !.current_room_id = JoinedRoomId, !.is_reconnecting = FALSE]
    ELSE IF msg_type = "reconnect_failed"
    THEN [c EXCEPT !.is_reconnecting = FALSE, !.current_room_id = NoRoomId]
    ELSE c

\* lines 175-189: a line arrives (pong stands for every type without a branch)
MessageTypes == {"pong", "room_joined", "room_closed", "reconnect_success", "reconnect_failed"}

Receive175(msg_type) ==
    /\ pc[Receiver] = "175"
    /\ socket = "open" /\ wire = "up"
    /\ Become(HandleMessage([self EXCEPT !.pc[Receiver] = "172"], msg_type))

\* lines 176-177 and 193-196: recv returns nothing or raises, on a dead
\* connection or on a socket another thread closed
ReceiveBreak ==
    /\ pc[Receiver] = "175"
    /\ socket = "none" \/ wire = "down"
    /\ Become([self EXCEPT !.pc[Receiver] = "200"])

\* Lines 200-204 without the test of current_room_id at line 202.
Receive200Reconnects ==
    /\ pc[Receiver] = "200"
    /\ Become([self EXCEPT !.pc[Receiver] =
                  IF connected /\ ~is_reconnecting THEN "252" ELSE "done"])

\* lines 200-209
Receive200 ==
    /\ pc[Receiver] = "200"
    /\ Become([self EXCEPT !.pc[Receiver] =
                  IF connected /\ ~is_reconnecting
                  THEN (IF current_room_id # NoRoomId THEN "252" ELSE "99")
                  ELSE "done"])

\* ---------------------------------------------------- _attempt_reconnection
\* lines 252-254
Attempt252 ==
    /\ pc[Receiver] = "252"
    /\ Become([self EXCEPT !.pc[Receiver] = IF is_reconnecting THEN "done" ELSE "257"])

\* line 257
Attempt257 ==
    /\ pc[Receiver] = "257"
    /\ Become([self EXCEPT !.is_reconnecting = TRUE, !.pc[Receiver] = "258"])

\* line 258
Attempt258 ==
    /\ pc[Receiver] = "258"
    /\ Become([self EXCEPT !.connected = FALSE, !.pc[Receiver] = "261"])

\* lines 261-262
Attempt261 ==
    /\ pc[Receiver] = "261"
    /\ Become(Fire([self EXCEPT !.pc[Receiver] = "265"], "connection_lost", <<>>))

\* lines 265-270
Attempt265 ==
    /\ pc[Receiver] = "265"
    /\ Become([self EXCEPT !.socket = "none", !.pc[Receiver] = "273"])

\* lines 273-274: the reconnect thread starts, _receive_loop returns
Attempt273 ==
    /\ pc[Receiver] = "273"
    /\ LET t == Reconnector(Fired("connection_lost"))
       IN  Become([self EXCEPT !.pc[t] = "282", !.attempt[t] = 1,
                               !.pc[Receiver] = "done"])

\* ---------------------------------------------------------- _reconnect_loop
\* lines 282-284
Reconnect282(t) ==
    /\ pc[t] = "282"
    /\ Become([self EXCEPT !.pc[t] = IF is_reconnecting THEN "286" ELSE "316"])

\* lines 286-288
Reconnect286(t) ==
    /\ pc[t] = "286"
    /\ Become([self EXCEPT !.pc[t] = IF running THEN "293" ELSE "316"])

\* lines 293-297: the reconnecting callback, then connect() is entered
Reconnect293(t) ==
    /\ pc[t] = "293"
    /\ Become(Fire([self EXCEPT !.pc[t] = "62"], "reconnecting",
                   <<attempt[t], max_reconnect_attempts>>))

\* line 301, join_lobby -> send_message (lines 119-136): nothing is sent on a
\* client that is not connected; the send raises on a dead connection
Reconnect301(t) ==
    /\ pc[t] = "301"
    /\ Become([self EXCEPT !.pc[t] = IF ~connected \/ socket = "none" THEN "311"
                                     ELSE IF wire = "up" THEN "305"
                                     ELSE "99"])

\* lines 305-308
Reconnect305(t) ==
    /\ pc[t] = "305"
    /\ Become(Fire([self EXCEPT !.pc[t] = "done"], "reconnect_success", <<>>))

\* lines 311-312, and the for statement at line 281
Reconnect311(t) ==
    /\ pc[t] = "311"
    /\ IF attempt[t] < max_reconnect_attempts
       THEN Become([self EXCEPT !.attempt[t] = @ + 1, !.pc[t] = "282"])
       ELSE Become([self EXCEPT !.pc[t] = "316"])

\* line 316
Reconnect316(t) ==
    /\ pc[t] = "316"
    /\ Become([self EXCEPT !.is_reconnecting = FALSE, !.pc[t] = "319"])

\* lines 319-320
Reconnect319(t) ==
    /\ pc[t] = "319"
    /\ Become(Fire([self EXCEPT !.pc[t] = "323"], "reconnect_failed", <<>>))

\* lines 323-324
Reconnect323(t) ==
    /\ pc[t] = "323"
    /\ Become(Fire([self EXCEPT !.pc[t] = "done"], "disconnect", <<>>))

\* --------------------------------------------------------------- _ping_loop
\* line 328
Ping328(t) ==
    /\ pc[t] = "328"
    /\ Become([self EXCEPT !.pc[t] = IF running /\ connected THEN "329" ELSE "done"])

\* lines 329-331 and send_message's test at line 119
Ping329(t) ==
    /\ pc[t] = "329"
    /\ Become([self EXCEPT !.pc[t] = IF connected /\ socket # "none" THEN "130" ELSE "328"])

\* send_message, lines 130-136: the send raises on a dead connection and on a
\* socket another thread set to None
Ping130(t) ==
    /\ pc[t] = "130"
    /\ Become([self EXCEPT !.pc[t] = IF socket = "none" \/ wire = "down" THEN "99" ELSE "328"])

\* ------------------------------------------------------------- the client
NextClient ==
    \/ UserConnect
    \/ UserDisconnect
    \/ WireDown
    \/ \E t \in ClientThreads : Connect62(t)
    \/ \E t \in ClientThreads, ok \in BOOLEAN : Connect64(t, ok)
    \/ \E t \in ClientThreads : Connect70(t)
    \/ \E t \in ClientThreads : Connect71(t)
    \/ \E t \in ClientThreads : Connect72(t)
    \/ \E t \in ClientThreads : Connect76(t)
    \/ \E t \in ClientThreads : Connect91(t)
    \/ \E t \in ClientThreads : Disconnect99(t)
    \/ \E t \in ClientThreads : Disconnect102(t)
    \/ \E t \in ClientThreads : Disconnect104(t)
    \/ \E t \in ClientThreads : Disconnect114(t)
    \/ Receive172
    \/ \E msg_type \in MessageTypes : Receive175(msg_type)
    \/ ReceiveBreak
    \/ Receive200
    \/ Attempt252
    \/ Attempt257
    \/ Attempt258
    \/ Attempt261
    \/ Attempt265
    \/ Attempt273
    \/ \E t \in Reconnectors : Reconnect282(t)
    \/ \E t \in Reconnectors : Reconnect286(t)
    \/ \E t \in Reconnectors : Reconnect293(t)
    \/ \E t \in Reconnectors : Reconnect301(t)
    \/ \E t \in Reconnectors : Reconnect305(t)
    \/ \E t \in Reconnectors : Reconnect311(t)
    \/ \E t \in Reconnectors : Reconnect316(t)
    \/ \E t \in Reconnectors : Reconnect319(t)
    \/ \E t \in Reconnectors : Reconnect323(t)
    \/ \E t \in Pingers : Ping328(t)
    \/ \E t \in Pingers : Ping329(t)
    \/ \E t \in Pingers : Ping130(t)

\* ------------------------------------------------- game_ui.py: GomokuUI state
\* Player.BLACK and Player.WHITE; my_player of the two clients of one room.
UiPlayers == {"BLACK", "WHITE"}

\* lines 2867-2870
Opponent(p) == IF p = "BLACK" THEN "WHITE" ELSE "BLACK"

\* __init__, lines 196-211, and _start_network_game: a network game has started,
\* the board is empty and BLACK is to move.  Times are NoTime where the code
\* holds None; board is the set of occupied cells of self.game.
UiInit ==
    [p \in UiPlayers |->
        [paused |-> FALSE, pause_sent |-> FALSE, pause_start_time |-> NoTime,
         pause_initiator |-> "None",
         pause_allowance |-> [q \in UiPlayers |-> 2],
         ui_state |-> "GAMEPLAY",
         turn_start_time |-> NoTime, elapsed_before_pause |-> 0,
         move_time_limit |-> 30,
         board |-> {}, current_player |-> "BLACK",
         line |-> "idle"]]

\* ------------------------------------------------------ gomoku.py: Gomoku
GomokuSize == 4
win_len == 3
None == 0     \* self.winner is None

Squares == (0..(GomokuSize - 1)) \X (0..(GomokuSize - 1))

\* __init__, lines 10-16
GomokuInit ==
    [board |-> [sq \in Squares |-> 0], current_player |-> 1, winner |-> None]

\* ------------------------------------------------- gomoku_game.py: GomokuGame
BOARD_SIZE == 3
WIN_LENGTH == 3
num_players == 2
GameCells == (0..BOARD_SIZE - 1) \X (0..BOARD_SIZE - 1)

\* Player.get_all_players(count), lines 29-32, by the values of the enum
get_all_players(count) == [i \in 1..count |-> i]

\* __init__, lines 69-85, and reset_game, lines 87-95.  player_index counts
\* from 0 as in the code; EMPTY is 0, and winner None is 0.
GameInit ==
    [players |-> get_all_players(num_players),
     player_index |-> 0,
     board |-> [sq \in GameCells |-> 0],
     current_player |-> get_all_players(num_players)[1],
     move_history |-> <<>>,
     game_state |-> "playing",
     winner |-> 0]

\* ------------------------------------------- network_manager.py: NetworkManager
\* The players registered to the session (register_player, lines 93-105).
SessionPlayers == <<"player_1", "player_2">>

\* __init__, lines 22-23, and the GameSession of lines 97-102: message_queue
\* has no key for the game (has_key false) until the first queue_update.
NetworkInit ==
    /\ nm = [has_key |-> FALSE, message_queue |-> <<>>, sequence_number |-> 0,
             accepted |-> 0]
    /\ update_task = [pc |-> "idle", updates_is_queue |-> FALSE, packed |-> <<>>,
                      seq |-> 0, sending |-> 0]
    /\ delivered = {}

\* ------------------------------------------------ lobby_manager.py: LobbyManager
\* __init__, lines 82-86: the four dictionaries are empty (exc: a call has
\* raised)
LobbyInit ==
    /\ lobby = [rooms |-> <<>>, players |-> <<>>, client_to_player |-> <<>>,
                player_to_room |-> <<>>, next_room_id |-> 1, exc |-> FALSE]
    /\ lobby_time = 0

\* ---------------------------------------------------------- server threads
\* start(), lines 136-142, and _accept_connections, lines 199-203: the threads
\* of the server. A reader thread serves one connection.
MaxQueueClients == 2
QueueClients == 1..MaxQueueClients
Acceptor == <<"accept", 0>>
Dispatcher == <<"message", 0>>
Reaper == <<"cleanup", 0>>
Reader(cid) == <<"reader", cid>>
Readers == {Reader(cid) : cid \in QueueClients}
ServerThreads == {Acceptor, Dispatcher, Reaper} \cup Readers
Unlocked == <<"unlocked", 0>>   \* queue_lock is held by no thread

\* __init__, lines 101-116, then start(), lines 133-142
QueueInit ==
    /\ server_running = TRUE
    /\ message_queue = <<>>
    /\ queue_lock = Unlocked
    /\ messages_to_process = <<>>
    /\ handled = <<>>
    /\ enqueued = [cid \in QueueClients |-> 0]
    /\ server_pc = [t \in ServerThreads |->
                      IF t = Acceptor THEN "175" ELSE IF t = Dispatcher THEN "258"
                      ELSE IF t = Reaper THEN "862" ELSE "215"]

\* ------------------------------------------------------------------- start
Init ==
    /\ players = <<>>
    /\ rooms = [r \in RoomIds |-> NoRoom]
    /\ next_client_id = 1
    /\ next_room_id = 1
    /\ link = [c \in ClientIds |-> "none"]
    /\ now = 0
    /\ reaper_running = TRUE
    /\ sent = <<>>
    /\ exc = FALSE
    /\ threads = [t \in Threads |-> IdleThread]
    /\ ClientInit
    /\ ui = UiInit
    /\ inbox = [p \in UiPlayers |-> <<>>]
    /\ g = GomokuInit
    /\ QueueInit
    /\ game = GameInit
    /\ NetworkInit
    /\ LobbyInit

\* _accept_connections, lines 177-203
Accept ==
    /\ next_client_id <= MaxClients
    /\ players' = (next_client_id :> Player(DefaultName(next_client_id + 1))) @@ players
    /\ link' = [link EXCEPT ![next_client_id] = "up"]
    /\ next_client_id' = next_client_id + 1
    /\ sent' = <<>>
    /\ exc' = FALSE
    /\ UNCHANGED <<rooms, next_room_id, now, reaper_running, threads, client_vars, app_vars>>

\* The connection breaks: from now on a write to the socket raises.
ConnectionReset(cid) ==
    /\ link[cid] = "up"
    /\ link' = [link EXCEPT ![cid] = "reset"]
    /\ sent' = <<>>
    /\ exc' = FALSE
    /\ UNCHANGED <<players, rooms, next_client_id, next_room_id, now, reaper_running, threads, client_vars, app_vars>>

\* time.time() advances
Tick ==
    /\ now < MaxTime
    /\ now' = now + TickStep
    /\ sent' = <<>>
    /\ exc' = FALSE
    /\ UNCHANGED <<players, rooms, next_client_id, next_room_id, link, reaper_running, threads, client_vars, app_vars>>

RoomCreate(cid) ==
    /\ CanDispatch(cid)
    /\ next_room_id <= MaxRooms
    /\ Finish(HandleRoomCreate(Dispatched(cid), cid))
    /\ UNCHANGED <<next_client_id, now, reaper_running, threads, client_vars, app_vars>>

RoomJoin(cid, rid) ==
    /\ CanDispatch(cid)
    /\ Finish(HandleRoomJoin(Dispatched(cid), cid, rid))
    /\ UNCHANGED <<next_client_id, now, reaper_running, threads, client_vars, app_vars>>

RoomLeave(cid) ==
    /\ CanDispatch(cid)
    /\ Finish(LeaveRoom(Dispatched(cid), cid))
    /\ UNCHANGED <<next_client_id, now, reaper_running, threads, client_vars, app_vars>>

\* _handle_client, lines 223-249: recv returns b"" or raises, the loop ends and the
\* reader calls _remove_client
ReaderDisconnect(cid) ==
    /\ RemoveClientGuard(Server, cid, FALSE)
    /\ Finish(RemoveClient(Server, cid, FALSE))
    /\ UNCHANGED <<next_client_id, now, reaper_running, threads, client_vars, app_vars>>

\* The reaper's test with the client's ping interval for a deadline.
ClientsToRemoveAfterInterval ==
    {cid \in DOMAIN players :
        players[cid].socket # "none" /\ now - players[cid].last_ping > PING_INTERVAL}

\* _cleanup_loop, lines 866-871
ClientsToRemove ==
    {cid \in DOMAIN players :
        players[cid].socket # "none" /\ now - players[cid].last_ping > PING_TIMEOUT}

RECURSIVE ReaperLoop(_, _, _)
ReaperLoop(S, clients_to_remove, i) ==
    IF S.exc \/ i > MaxClients THEN S
    ELSE ReaperLoop(IF i \in clients_to_remove THEN RemoveClient(S, i, TRUE) ELSE S,
                    clients_to_remove, i + 1)

\* _cleanup_loop: one scan; an exception ends the thread
ReaperScan ==
    /\ reaper_running
    /\ ClientsToRemove # {}
    /\ LET S == ReaperLoop(Server, ClientsToRemove, 1)
       IN  /\ Finish(S)
           /\ reaper_running' = ~S.exc
    /\ UNCHANGED <<next_client_id, now, threads, client_vars, app_vars>>

RECURSIVE MovesLoggedUpTo(_)
MovesLoggedUpTo(n) ==
    IF n = 0 THEN 0 ELSE Len(rooms[n].game_state.moves) + MovesLoggedUpTo(n - 1)

\* The moves logged over all rooms (the model stops committing moves at MaxMoves).
MovesLogged == MovesLoggedUpTo(MaxRooms)

GameMove(cid, row, col, player_id, board_sync) ==
    /\ CanDispatch(cid)
    /\ MovesLogged < MaxMoves
    /\ Finish(HandleGameMove(Dispatched(cid), cid, row, col, player_id, board_sync))
    /\ UNCHANGED <<next_client_id, now, reaper_running, threads, client_vars, app_vars>>

PlayerResign(cid) ==
    /\ CanDispatch(cid)
    /\ Finish(HandlePlayerResign(Dispatched(cid), cid, players[cid].name))
    /\ UNCHANGED <<next_client_id, now, reaper_running, threads, client_vars, app_vars>>

NewGameRequest(cid) ==
    /\ CanDispatch(cid)
    /\ Finish(HandleNewGameRequest(Dispatched(cid), cid))
    /\ UNCHANGED <<next_client_id, now, reaper_running, threads, client_vars, app_vars>>

NewGameResponse(cid, accepted) ==
    /\ CanDispatch(cid)
    /\ Finish(HandleNewGameResponse(Dispatched(cid), cid, accepted))
    /\ UNCHANGED <<next_client_id, now, reaper_running, threads, client_vars, app_vars>>

\* _handle_message, lines 289-309: lobby_join
LobbyJoin(cid, player_name, session_token) ==
    /\ CanDispatch(cid)
    /\ Finish(HandleLobbyJoin(Dispatched(cid), cid, player_name, session_token))
    /\ UNCHANGED <<next_client_id, now, reaper_running, threads, client_vars, app_vars>>

\* _handle_message, lines 405-406: room_list
RoomList(cid) ==
    /\ CanDispatch(cid)
    /\ Finish(SendRoomList(Dispatched(cid), cid))
    /\ UNCHANGED <<next_client_id, now, reaper_running, threads, client_vars, app_vars>>

\* _handle_message, lines 286-287: ping
HandlePing(S, cid) == SendToClient(S, cid, [type |-> "pong"])

Ping(cid) ==
    /\ CanDispatch(cid)
    /\ Finish(HandlePing(Dispatched(cid), cid))
    /\ UNCHANGED <<next_client_id, now, reaper_running, threads, client_vars, app_vars>>

\* --------------------------------------------- _handle_client, line by line
\* The lines a connection can carry: a ping message, a line that is not JSON, and
\* bytes that are not UTF-8.
Lines == {"{\"type\": \"ping\"}", "{\"type\": ", "\\xff\\xfe"}

\* line.decode('utf-8'), line 234: raises UnicodeDecodeError on bytes that are
\* not UTF-8
Utf8Decodes(line) == line # "\\xff\\xfe"

\* json.loads, line 234: raises JSONDecodeError on text that is not JSON
JsonLoads(line) == line = "{\"type\": \"ping\"}"

\* lines 232-246: what the reader does with one line.  JSONDecodeError is caught
\* at line 236 and the line is dropped; UnicodeDecodeError is not a
\* JSONDecodeError and reaches line 244, where the loop ends.
LineOutcome(line) ==
    IF ~Utf8Decodes(line) THEN "break"
    ELSE IF ~JsonLoads(line) THEN "dropped"
    ELSE "queued"

\* The reader of connection cid receives one line; a queued message is dispatched
\* (lines 267-269), a broken loop ends in _remove_client (line 249).
ReadLine(cid, line) ==
    /\ cid \in DOMAIN players
    /\ link[cid] = "up"
    /\ players[cid].socket # "none"
    /\ Finish(IF LineOutcome(line) = "queued" THEN HandlePing(Dispatched(cid), cid)
              ELSE IF LineOutcome(line) = "dropped" THEN Server
              ELSE RemoveClient(Server, cid, FALSE))
    /\ UNCHANGED <<next_client_id, now, reaper_running, threads, client_vars, app_vars>>

\* ------------------------------------------- _remove_client, thread by thread
\* No lock guards _remove_client: a reader and the reaper run it statement by
\* statement against the shared registry and room map.
AllIdle == \A t \in Threads : threads[t].pc = "idle"

\* The server record a thread step works on; its writes are appended to sent.
RaceServer == [Server EXCEPT !.sent = sent]

\* The call _remove_client(cid, force=force) is entered.
Enter(t, cid, force, todo) ==
    threads' = [threads EXCEPT ![t] =
                   [IdleThread EXCEPT !.pc = "guard", !.client_id = cid,
                                      !.force = force, !.clients_to_remove = todo]]

\* _remove_client returns: the reaper goes on with clients_to_remove (line 874).
Return(t) ==
    LET todo == threads[t].clients_to_remove
    IN  IF todo # <<>> THEN Enter(t, Head(todo), TRUE, Tail(todo))
        ELSE threads' = [threads EXCEPT ![t] = IdleThread]

\* An exception leaves _remove_client and ends the thread.
Die(t) ==
    /\ Finish(Raise(RaceServer))
    /\ threads' = [threads EXCEPT ![t] = IdleThread]
    /\ reaper_running' = IF t = "reaper" THEN FALSE ELSE reaper_running
    /\ UNCHANGED <<next_client_id, now, client_vars, app_vars>>

\* _handle_client, line 249: the reader's loop has ended
ReaderExit(cid) ==
    /\ threads["reader"].pc = "idle"
    /\ RemoveClientGuard(Server, cid, FALSE)
    /\ Enter("reader", cid, FALSE, <<>>)
    /\ UNCHANGED <<players, rooms, next_client_id, next_room_id, link, now,
                   reaper_running, sent, exc, client_vars, app_vars>>

\* _cleanup_loop, lines 863-875: the scan, then the first removal is entered
ReaperWake ==
    /\ threads["reaper"].pc = "idle"
    /\ reaper_running
    /\ ClientsToRemove # {}
    /\ LET TimedOut(c) == c \in ClientsToRemove
           todo == SelectSeq([i \in 1..MaxClients |-> i], TimedOut)
       IN  Enter("reaper", Head(todo), TRUE, Tail(todo))
    /\ UNCHANGED <<players, rooms, next_client_id, next_room_id, link, now,
                   reaper_running, sent, exc, client_vars, app_vars>>

\* lines 768-773
RcGuard(t) ==
    /\ threads[t].pc = "guard"
    /\ LET cid == threads[t].client_id
       IN  IF RemoveClientGuard(Server, cid, threads[t].force)
           THEN threads' = [threads EXCEPT ![t].pc = "mark",
                                           ![t].player_name = players[cid].name]
           ELSE Return(t)
    /\ UNCHANGED <<players, rooms, next_client_id, next_room_id, link, now,
                   reaper_running, sent, exc, client_vars, app_vars>>

\* lines 776-786 (player is the object read at line 771, registered or not)
RcMark(t) ==
    /\ threads[t].pc = "mark"
    /\ LET cid == threads[t].client_id
       IN  Finish(IF cid \in DOMAIN players THEN MarkDisconnected(RaceServer, cid)
                  ELSE RaceServer)
    /\ threads' = [threads EXCEPT ![t].pc = "roster"]
    /\ UNCHANGED <<next_client_id, now, reaper_running, client_vars, app_vars>>

\* lines 790-794 (a player already deleted by another thread has room_id None or
\* a room that is gone)
RcRoster(t) ==
    /\ threads[t].pc = "roster"
    /\ LET cid == threads[t].client_id
           rid == IF cid \in DOMAIN players THEN players[cid].room_id ELSE NoRoomId
       IN  IF rid # NoRoomId /\ InRooms(RaceServer, rid)
           THEN /\ Finish(IF InSeq(rooms[rid].players, cid)
                          THEN [RaceServer EXCEPT !.rooms[rid].players = ListRemove(@, cid)]
                          ELSE RaceServer)
                /\ threads' = [threads EXCEPT ![t].pc = "notify", ![t].room_id = rid]
           ELSE /\ Finish(RaceServer)
                /\ threads' = [threads EXCEPT ![t].pc = "del"]
    /\ UNCHANGED <<next_client_id, now, reaper_running, client_vars, app_vars>>

\* lines 797-852 (room is the object read at line 792; a room another thread
\* deleted has an empty roster)
RcNotify(t) ==
    /\ threads[t].pc = "notify"
    /\ LET cid == threads[t].client_id
           rid == threads[t].room_id
           S == IF rooms[rid].players = <<>>
                THEN IF rooms[rid].live
                     THEN [RaceServer EXCEPT !.rooms[rid].live = FALSE]
                     ELSE Raise(RaceServer)   \* del self.rooms[room_id]: KeyError
                ELSE RemoveClientNotify(RaceServer, cid, threads[t].player_name, rid)
       IN  IF S.exc THEN Die(t)
           ELSE /\ Finish(S)
                /\ threads' = [threads EXCEPT ![t].pc = "del"]
                /\ UNCHANGED <<next_client_id, now, reaper_running, client_vars, app_vars>>

\* lines 854-857
RcDel(t) ==
    /\ threads[t].pc = "del"
    /\ LET cid == threads[t].client_id
       IN  IF cid \in DOMAIN players
           THEN /\ Finish(DelPlayer(RaceServer, cid))
                /\ Return(t)
                /\ UNCHANGED <<next_client_id, now, reaper_running, client_vars, app_vars>>
           ELSE Die(t)                        \* del self.players[client_id]: KeyError

\* ---------------------------------------------------------- specifications
\* Lobby, rooms and disconnects.
Next ==
    \/ Accept
    \/ \E cid \in ClientIds : ConnectionReset(cid)
    \/ Tick
    \/ \E cid \in ClientIds : RoomCreate(cid)
    \/ \E cid \in ClientIds, rid \in RoomIds : RoomJoin(cid, rid)
    \/ \E cid \in ClientIds : RoomLeave(cid)
    \/ \E cid \in ClientIds : ReaderDisconnect(cid)
    \/ ReaperScan

Spec == Init /\ [][Next]_vars

InLobby(cid) == cid \in DOMAIN players /\ players[cid].room_id = NoRoomId

\* Games over healthy connections: the clients of this specification create one
\* room, and create or join only from the lobby; what they send during the game
\* is unrestricted.
NextGame ==
    \/ Accept
    \/ Tick
    \/ \E cid \in ClientIds : InLobby(cid) /\ next_room_id = 1 /\ RoomCreate(cid)
    \/ \E cid \in ClientIds, rid \in RoomIds : InLobby(cid) /\ RoomJoin(cid, rid)
    \/ \E cid \in ClientIds, row \in Coords, col \in Coords, player_id \in StoneIds,
          board_sync \in BOOLEAN : GameMove(cid, row, col, player_id, board_sync)
    \/ \E cid \in ClientIds : PlayerResign(cid)
    \/ \E cid \in ClientIds : NewGameRequest(cid)
    \/ \E cid \in ClientIds, accepted \in BOOLEAN : NewGameResponse(cid, accepted)

SpecGame == Init /\ [][NextGame]_vars

\* Disconnects detected by a reader and by the reaper at once: rooms are set up
\* from the lobby while no thread is inside _remove_client.
NextRace ==
    \/ AllIdle /\ Accept
    \/ AllIdle /\ Tick
    \/ \E cid \in ClientIds : AllIdle /\ InLobby(cid) /\ RoomCreate(cid)
    \/ \E cid \in ClientIds, rid \in RoomIds : AllIdle /\ InLobby(cid) /\ RoomJoin(cid, rid)
    \/ \E cid \in ClientIds : ReaderExit(cid)
    \/ ReaperWake
    \/ \E t \in Threads : RcGuard(t)
    \/ \E t \in Threads : RcMark(t)
    \/ \E t \in Threads : RcRoster(t)
    \/ \E t \in Threads : RcNotify(t)
    \/ \E t \in Threads : RcDel(t)

SpecRace == Init /\ [][NextRace]_vars

\* The lobby over healthy connections: any registered client may send any lobby
\* message at any time.
NextLobby ==
    \/ Accept
    \/ Tick
    \/ \E cid \in ClientIds : RoomCreate(cid)
    \/ \E cid \in ClientIds, rid \in RoomIds : RoomJoin(cid, rid)
    \/ \E cid \in ClientIds : RoomLeave(cid)
    \/ \E cid \in ClientIds : RoomList(cid)

SpecLobby == Init /\ [][NextLobby]_vars

\* Players that name themselves: lobby_join at any time, rooms created and
\* joined from the lobby.
NextNames ==
    \/ Accept
    \/ \E cid \in ClientIds, player_name \in LobbyNames, session_token \in ClientTokens :
          LobbyJoin(cid, player_name, session_token)
    \/ \E cid \in ClientIds : InLobby(cid) /\ RoomCreate(cid)
    \/ \E cid \in ClientIds, rid \in RoomIds : InLobby(cid) /\ RoomJoin(cid, rid)
    \/ \E cid \in ClientIds : RoomList(cid)

SpecNames == Init /\ [][NextNames]_vars

\* ------------------------------------------------------------------ claims
RosterOf(r) == rooms[r].players

\* The number of roster slots, over all rooms in the room map, that hold client c.
Memberships(c) ==
    Cardinality({<<r, i>> \in RoomIds \X (1..max_players) :
                    /\ rooms[r].live
                    /\ i <= Len(RosterOf(r))
                    /\ RosterOf(r)[i] = c})

\* c's connection is seen to be gone in this step: its socket was open and now the
\* player is deleted or its socket is None (reader EOF, failed write or reaper).
Disconnects(c) ==
    /\ c \in DOMAIN players
    /\ players[c].socket = "open"
    /\ (c \in DOMAIN players' => players'[c].socket = "none")

\* r is a room of exactly the two distinct members c and o.
TwoMemberRoom(r, c, o) ==
    /\ rooms[r].live
    /\ c # o
    /\ RosterOf(r) \in {<<c, o>>, <<o, c>>}

\* C1: every room in the room map has between 1 and max_players roster entries and
\* its host_id is one of them (a room with an empty roster is not in the map).
C1_RoomInvariant ==
    \A r \in RoomIds :
        rooms[r].live =>
            /\ Len(RosterOf(r)) >= 1
            /\ Len(RosterOf(r)) <= max_players
            /\ InSeq(RosterOf(r), rooms[r].host_id)

\* C2: no client_id appears in the rosters of two rooms, nor twice in one roster.
C2_OneRosterSlotPerClient == \A c \in ClientIds : Memberships(c) <= 1

\* C7: when a member c of a two-member room disconnects, c is removed from the
\* roster and from the player registry, and a surviving member o is sent a
\* game_ended_disconnect naming o as winner and c as disconnected_player, with
\* reason "opponent_disconnected", forfeit and no_rematch.
C7_DisconnectForfeits ==
    [][\A c \in ClientIds, o \in ClientIds, r \in RoomIds :
          (Disconnects(c) /\ TwoMemberRoom(r, c, o))
              => /\ c \notin DOMAIN players'
                 /\ ~InSeq(rooms'[r].players, c)
                 /\ (o \in DOMAIN players /\ o \in DOMAIN players'
                        => \E i \in 1..Len(sent') :
                              sent'[i] = [to |-> o] @@
                                  GameEndedDisconnectMsg(players[c].name, players[o].name))
      ]_vars

\* The room a game_move from cid is applied to (lines 584-591).
RoomOf(cid) == players[cid].room_id

Stones(r) == Cardinality({cell \in Cells : rooms[r].game_state.board[cell] # 0})

\* cid holds the seat whose turn it is: roster index 0 is Black (current_player 1),
\* roster index 1 is White (current_player 2).
SeatToMove(r, cid) ==
    /\ InSeq(RosterOf(r), cid)
    /\ IndexOf(RosterOf(r), cid) = rooms[r].game_state.current_player

MsgsTo(log, cid, type) == {i \in 1..Len(log) : log[i].to = cid /\ log[i].type = type}

\* C3: in every room the number of non-empty cells of the board mirror equals the
\* length of the move log.
C3_StonesEqualMoveLog ==
    \A r \in RoomIds : rooms[r].live => Stones(r) = Len(rooms[r].game_state.moves)

\* C4: a game_move from a member whose seat is not the seat to move is dropped: no
\* room state changes and nothing is sent.
C4_OutOfTurnMoveDropped ==
    [][\A cid \in ClientIds, row \in Coords, col \in Coords, player_id \in StoneIds,
          board_sync \in BOOLEAN :
          (/\ MoveAdmitted(Server, cid)
           /\ InSeq(RosterOf(RoomOf(cid)), cid)
           /\ ~SeatToMove(RoomOf(cid), cid)
           /\ GameMove(cid, row, col, player_id, board_sync))
              => (rooms' = rooms /\ sent' = <<>>)
      ]_vars

\* C5: a game_move onto a cell that is occupied in the room's board is dropped: no
\* room state changes and nothing is sent.
C5_OccupiedCellMoveDropped ==
    [][\A cid \in ClientIds, row \in Coords, col \in Coords, player_id \in StoneIds,
          board_sync \in BOOLEAN :
          (/\ MoveAdmitted(Server, cid)
           /\ rooms[RoomOf(cid)].game_state.board[<<row, col>>] # 0
           /\ GameMove(cid, row, col, player_id, board_sync))
              => (rooms' = rooms /\ sent' = <<>>)
      ]_vars

\* The step before this state handled a player_resign from c (only that handler
\* sends resign_ack).
JustResigned(c) == MsgsTo(sent, c, "resign_ack") # {}

\* C8: once a player_resign from a member of a two-member room has been processed,
\* a game_move from either seat is not committed and not fanned out.
C8_NoMoveAfterResign ==
    [][\A c \in ClientIds, o \in ClientIds, m \in ClientIds, row \in Coords,
          col \in Coords, player_id \in StoneIds, board_sync \in BOOLEAN :
          (/\ JustResigned(c)
           /\ m \in {c, o}
           /\ MoveAdmitted(Server, m)
           /\ TwoMemberRoom(RoomOf(m), c, o)
           /\ GameMove(m, row, col, player_id, board_sync))
              => (rooms' = rooms /\ sent' = <<>>)
      ]_vars

\* The step appended one entry to room r's move log (line 615): a commit.
MoveCommitted(r) ==
    /\ rooms[r].live /\ rooms'[r].live
    /\ Len(rooms'[r].game_state.moves) = Len(rooms[r].game_state.moves) + 1

\* C9: right after a move is committed the room's timer has turn_start_time equal
\* to the commit time and elapsed_before_pause 0, and move_time_limit is unchanged.
C9_TimerResetOnCommit ==
    [][\A r \in RoomIds :
          MoveCommitted(r)
              => rooms'[r].timer_state =
                    [turn_start_time |-> now,
                     elapsed_before_pause |-> 0,
                     move_time_limit |-> rooms[r].timer_state.move_time_limit]
      ]_vars

\* A move was committed after the clock had advanced.
C9_Witness ==
    \E r \in RoomIds :
        /\ rooms[r].live
        /\ Len(rooms[r].game_state.moves) >= 1
        /\ now > 0
        /\ rooms[r].timer_state.turn_start_time = now
        /\ MsgsTo(sent, RosterOf(r)[1], "timer_sync") # {}

\* The entry a commit appended to room r's move log, and the client it names.
Committed(r) == rooms'[r].game_state.moves[Len(rooms'[r].game_state.moves)]

Mover(r) == CHOOSE c \in DOMAIN players : players[c].name = Committed(r).player

\* C10: for a committed move the mover is sent exactly one timer_sync and no
\* game_move, every other roster member is sent exactly one game_move carrying the
\* mover's name, row, col, player_id and the reset timer_state, and nothing else
\* is sent to anyone.
C10_MoveFanOut ==
    [][\A r \in RoomIds :
          MoveCommitted(r)
              => LET e == Committed(r)
                     cid == Mover(r)
                     others == {o \in ClientIds : InSeq(RosterOf(r), o) /\ o # cid}
                 IN  /\ InSeq(RosterOf(r), cid)
                     /\ Cardinality(MsgsTo(sent', cid, "timer_sync")) = 1
                     /\ MsgsTo(sent', cid, "game_move") = {}
                     /\ \A o \in others :
                           /\ Cardinality(MsgsTo(sent', o, "game_move")) = 1
                           /\ \A i \in MsgsTo(sent', o, "game_move") :
                                 sent'[i] = [to |-> o] @@
                                     GameMoveMsg(e.player, e.row, e.col,
                                                 rooms'[r].game_state.board[<<e.row, e.col>>],
                                                 rooms'[r].timer_state)
                     /\ Len(sent') = 1 + Cardinality(others)
                     /\ \A i \in 1..Len(sent') : sent'[i].to \in others \cup {cid}
      ]_vars

\* A move was fanned out in a two-member room while a registered player was
\* outside the room.
C10_Witness ==
    \E r \in RoomIds, c \in DOMAIN players :
        /\ rooms[r].live
        /\ Len(RosterOf(r)) = 2
        /\ ~InSeq(RosterOf(r), c)
        /\ \E i \in 1..Len(sent), j \in 1..Len(sent) :
              /\ sent[i].type = "timer_sync" /\ InSeq(RosterOf(r), sent[i].to)
              /\ sent[j].type = "game_move" /\ InSeq(RosterOf(r), sent[j].to)

\* The game_ended_disconnect messages in log that tell o that the player named
\* player_name has disconnected.
ForfeitNotices(log, o, player_name) ==
    {i \in 1..Len(log) : /\ log[i].to = o
                         /\ log[i].type = "game_ended_disconnect"
                         /\ log[i].disconnected_player = player_name}

\* C6: when the removal of a disconnected member of a two-player room completes,
\* each surviving member has been sent exactly one game_ended_disconnect for that
\* disconnect, whichever threads detected it and however they interleaved.
C6_OneForfeitNoticePerSurvivor ==
    [][\A t \in Threads, o \in ClientIds :
          (/\ RcDel(t)
           /\ threads[t].room_id # NoRoomId
           /\ rooms[threads[t].room_id].live
           /\ InSeq(RosterOf(threads[t].room_id), o)
           /\ o \in DOMAIN players
           /\ players[o].socket # "none")
              => Cardinality(ForfeitNotices(sent', o, threads[t].player_name)) = 1
      ]_vars

RoomIdOf(ps) == [c \in DOMAIN ps |-> ps[c].room_id]

\* C11: a room_join naming a full room, or a room that is not in the room map,
\* changes no roster and no player's room_id and sends nothing.
C11_JoinRefused ==
    [][\A cid \in ClientIds, rid \in RoomIds :
          (/\ cid \in DOMAIN players
           /\ (~rooms[rid].live \/ Len(RosterOf(rid)) >= max_players)
           /\ RoomJoin(cid, rid))
              => /\ rooms' = rooms
                 /\ RoomIdOf(players') = RoomIdOf(players)
                 /\ sent' = <<>>
      ]_vars

\* A player outside a full room has just been handled (its last-activity stamp is
\* the current time, after the clock advanced) and nothing was sent.
C11_Witness ==
    \E r \in RoomIds, c \in DOMAIN players :
        /\ rooms[r].live
        /\ Len(RosterOf(r)) = max_players
        /\ ~InSeq(RosterOf(r), c)
        /\ now > 0
        /\ players[c].last_ping = now
        /\ players[c].room_id = NoRoomId
        /\ sent = <<>>
        /\ ~exc

\* Every registered player has its socket, and no write to it raises.
AllConnected ==
    \A c \in DOMAIN players : link[c] = "up" /\ players[c].socket # "none"

\* C12: when a room_join fills a room, roster[0] is sent exactly one game_started
\* (black, your_turn true) and roster[1] exactly one (white, your_turn false), each
\* naming the other member as opponent, and the joiner's game_started comes after
\* the joiner's room_info.
C12_GameStartedOnFill ==
    [][\A cid \in ClientIds, rid \in RoomIds :
          (/\ cid \in DOMAIN players
           /\ AllConnected
           /\ rooms[rid].live
           /\ Len(RosterOf(rid)) = max_players - 1
           /\ RoomJoin(cid, rid))
              => LET black == rooms'[rid].players[1]
                     white == rooms'[rid].players[2]
                 IN  /\ Cardinality(MsgsTo(sent', black, "game_started")) = 1
                     /\ Cardinality(MsgsTo(sent', white, "game_started")) = 1
                     /\ \A i \in MsgsTo(sent', black, "game_started") :
                           sent'[i] = [to |-> black] @@
                               GameStartedMsg(rid, "black", players[black].name,
                                              players[white].name, players[black].name,
                                              players[white].name, TRUE)
                     /\ \A i \in MsgsTo(sent', white, "game_started") :
                           sent'[i] = [to |-> white] @@
                               GameStartedMsg(rid, "white", players[white].name,
                                              players[black].name, players[black].name,
                                              players[white].name, FALSE)
                     /\ \A i \in MsgsTo(sent', cid, "game_started"),
                           j \in MsgsTo(sent', cid, "room_info") : j < i
                     /\ MsgsTo(sent', cid, "room_info") # {}
      ]_vars

\* C13: room_create makes a room under a room_id no earlier room had (ids come
\* from a counter that only grows, and a room appears only under the counter's
\* value), with roster [sender] and host sender; the sender is sent one room_info
\* for it, and the room_list goes once to each player without a room_id and to
\* nobody else.
C13_RoomCreate ==
    [][/\ next_room_id' >= next_room_id
       /\ \A q \in RoomIds : (rooms'[q].live /\ ~rooms[q].live)
                                 => (q = next_room_id /\ next_room_id' = q + 1)
       /\ \A cid \in ClientIds :
             (cid \in DOMAIN players /\ AllConnected /\ RoomCreate(cid))
                => LET r == next_room_id
                   IN  /\ ~rooms[r].live
                       /\ rooms'[r].live
                       /\ rooms'[r].players = <<cid>>
                       /\ rooms'[r].host_id = cid
                       /\ players'[cid].room_id = r
                       /\ Cardinality(MsgsTo(sent', cid, "room_info")) = 1
                       /\ sent'[1] = [to |-> cid] @@ RoomInfoMsg(r, players[cid].name, 1, "")
                       /\ \A c \in ClientIds :
                             Cardinality(MsgsTo(sent', c, "room_list")) =
                                 IF c \in DOMAIN players' /\ players'[c].room_id = NoRoomId
                                 THEN 1 ELSE 0
                       /\ \A i \in 2..Len(sent') : sent'[i].type = "room_list"
      ]_vars

\* A room was just created while another player was in the lobby.
C13_Witness ==
    \E r \in RoomIds, c \in DOMAIN players, o \in DOMAIN players :
        /\ rooms[r].live
        /\ rooms[r].players = <<c>>
        /\ next_room_id = r + 1
        /\ Len(sent) >= 2
        /\ sent[1] = [to |-> c] @@ RoomInfoMsg(r, players[c].name, 1, "")
        /\ o # c
        /\ MsgsTo(sent, o, "room_list") # {}
        /\ MsgsTo(sent, c, "room_list") = {}

\* C14: when the host of a two-member room sends room_leave, the room stays, the
\* other member becomes host and is sent a room_info with its own name as
\* host_name, players 1 and the message "You are now the host!", and the leaver's
\* room_id is cleared.
C14_HostLeaveTransfers ==
    [][\A cid \in ClientIds, o \in ClientIds, r \in RoomIds :
          (/\ cid \in DOMAIN players
           /\ AllConnected
           /\ TwoMemberRoom(r, cid, o)
           /\ rooms[r].host_id = cid
           /\ RoomLeave(cid))
              => /\ rooms'[r].live
                 /\ rooms'[r].players = <<o>>
                 /\ rooms'[r].host_id = o
                 /\ players'[cid].room_id = NoRoomId
                 /\ \E i \in 1..Len(sent') :
                       sent'[i] = [to |-> o] @@
                           RoomInfoMsg(r, players[o].name, 1, "You are now the host!")
      ]_vars

\* The state before this step is the one a room_list from cid left behind: its
\* reply is the only write of that step.
JustListed(cid) ==
    /\ Len(sent) = 1
    /\ sent[1].to = cid
    /\ sent[1].type = "room_list"

OpenRooms == {r \in RoomIds : rooms[r].live /\ Len(RosterOf(r)) < max_players}

\* C15: a room_list request changes nothing but the sender's last-activity stamp,
\* its reply lists exactly the rooms that are not full, and a second request
\* right after the first gets the same reply.
C15_RoomListIdempotent ==
    [][\A cid \in ClientIds :
          (cid \in DOMAIN players /\ AllConnected /\ RoomList(cid))
              => /\ rooms' = rooms
                 /\ next_room_id' = next_room_id
                 /\ players' = [players EXCEPT ![cid].last_ping = now]
                 /\ Len(sent') = 1
                 /\ sent'[1].to = cid
                 /\ sent'[1].type = "room_list"
                 /\ {sent'[1].rooms[i].room_id : i \in 1..Len(sent'[1].rooms)} = OpenRooms
                 /\ Len(sent'[1].rooms) = Cardinality(OpenRooms)
                 /\ (JustListed(cid) => sent' = sent)
      ]_vars

\* A room_list was answered while one room was full and another was not.
C15_Witness ==
    \E c \in DOMAIN players, r \in RoomIds :
        /\ JustListed(c)
        /\ rooms[r].live
        /\ Len(RosterOf(r)) = max_players
        /\ Len(sent[1].rooms) = 1
        /\ OpenRooms # {}

\* C16: lobby_join sets the sender's name to player_name and the sender is sent
\* exactly one lobby_joined followed by exactly one room_list; lobby_joined
\* carries the session_token the client supplied, and a minted one only when the
\* client supplied none.
C16_LobbyJoin ==
    [][\A cid \in ClientIds, player_name \in LobbyNames, session_token \in ClientTokens :
          (/\ cid \in DOMAIN players
           /\ AllConnected
           /\ LobbyJoin(cid, player_name, session_token))
              => /\ players'[cid].name = player_name
                 /\ Len(sent') = 2
                 /\ sent'[1].to = cid /\ sent'[1].type = "lobby_joined"
                 /\ sent'[2].to = cid /\ sent'[2].type = "room_list"
                 /\ sent'[1].session_token =
                       IF session_token # NoToken THEN session_token ELSE MintedToken(cid)
      ]_vars

\* The step before this state started a game for cid (it sent cid game_started):
\* the game is not finished and no rematch was asked for in it.
JustStarted(cid) == MsgsTo(sent, cid, "game_started") # {}

\* C17: a new_game_response with accepted=true acts only when the game is finished
\* and the other seat has asked for a new game; in particular, received right
\* after the game started, it changes no room state and sends no game_started.
C17_RematchOnlyWhenAsked ==
    [][\A cid \in ClientIds :
          (/\ cid \in DOMAIN players
           /\ JustStarted(cid)
           /\ NewGameResponse(cid, TRUE))
              => /\ rooms' = rooms
                 /\ \A c \in ClientIds : MsgsTo(sent', c, "game_started") = {}
      ]_vars

\* ------------------------------------------------------- the client's claims
\* The server is out of reach once the UI's connect() has returned: every
\* connect attempt of a reconnect thread fails.
NextOffline ==
    \/ UserConnect
    \/ UserDisconnect
    \/ WireDown
    \/ \E t \in ClientThreads : Connect62(t)
    \/ \E t \in ClientThreads, ok \in BOOLEAN : (ok => t = User) /\ Connect64(t, ok)
    \/ \E t \in ClientThreads : Connect70(t)
    \/ \E t \in ClientThreads : Connect71(t)
    \/ \E t \in ClientThreads : Connect72(t)
    \/ \E t \in ClientThreads : Connect76(t)
    \/ \E t \in ClientThreads : Connect91(t)
    \/ \E t \in ClientThreads : Disconnect99(t)
    \/ \E t \in ClientThreads : Disconnect102(t)
    \/ \E t \in ClientThreads : Disconnect104(t)
    \/ \E t \in ClientThreads : Disconnect114(t)
    \/ Receive172
    \/ \E msg_type \in MessageTypes : Receive175(msg_type)
    \/ ReceiveBreak
    \/ Receive200
    \/ Attempt252
    \/ Attempt257
    \/ Attempt258
    \/ Attempt261
    \/ Attempt265
    \/ Attempt273
    \/ \E t \in Reconnectors : Reconnect282(t)
    \/ \E t \in Reconnectors : Reconnect286(t)
    \/ \E t \in Reconnectors : Reconnect293(t)
    \/ \E t \in Reconnectors : Reconnect311(t)
    \/ \E t \in Reconnectors : Reconnect316(t)
    \/ \E t \in Reconnectors : Reconnect319(t)
    \/ \E t \in Reconnectors : Reconnect323(t)
    \/ \E t \in Pingers : Ping328(t)
    \/ \E t \in Pingers : Ping329(t)
    \/ \E t \in Pingers : Ping130(t)

SpecOffline == Init /\ [][NextOffline]_vars

\* The client and its environment: the UI connects once and may disconnect, the
\* connection may die, connect attempts succeed or fail, messages arrive.
SpecClient == Init /\ [][NextClient]_vars

\* No thread of the client is running.
Quiescent == \A t \in ClientThreads : pc[t] \in {"idle", "none", "done"}

NotError(e) == e.name # "error"

\* The callbacks fired, without the error callbacks of failed connect() calls.
Emitted == SelectSeq(events, NotError)

\* What a client that loses its first connection and never gets another is to emit.
BoundedReconnect ==
    <<Event("connect", <<>>), Event("connection_lost", <<>>)>>
    \o [k \in 1..max_reconnect_attempts |->
           Event("reconnecting", <<k, max_reconnect_attempts>>)]
    \o <<Event("reconnect_failed", <<>>), Event("disconnect", <<>>)>>

\* C18: a client that lost its connection while holding a room reference, whose
\* connect attempts all failed and whose UI never called disconnect(), has, once
\* its threads are done, emitted connection_lost, then reconnecting(k, 12) for
\* k = 1..12, then reconnect_failed, then disconnect, each once, and has made at
\* most 12 connect attempts.
C18_BoundedReconnect ==
    (/\ Quiescent
     /\ wire = "down"
     /\ current_room_id # NoRoomId
     /\ disconnect_calls = 0)
        => /\ Emitted = BoundedReconnect
           /\ Fired("error") <= max_reconnect_attempts

\* A thread inside disconnect() runs to the end of it, and the receive thread
\* whose loop has ended runs the test at line 200: no thread holds another back.
DisconnectStep(t) ==
    \/ Disconnect99(t)
    \/ Disconnect102(t)
    \/ Disconnect104(t)
    \/ Disconnect114(t)

SpecOfflineFair ==
    /\ SpecOffline
    /\ WF_vars(Receive200)
    /\ \A t \in ClientThreads : WF_vars(DisconnectStep(t))

\* The receive loop has ended on a dead connection, the client still takes itself
\* for connected (the test at line 200 is about to pass) and holds no room
\* reference.
LostOutsideRoom ==
    /\ pc[Receiver] = "200"
    /\ wire = "down"
    /\ connected /\ ~is_reconnecting
    /\ current_room_id = NoRoomId

Disconnected == ~connected /\ ~running /\ Fired("disconnect") >= 1

NoReconnection ==
    /\ Fired("connection_lost") = 0
    /\ Fired("reconnecting") = 0
    /\ \A t \in Reconnectors : pc[t] = "none"

\* C19: when the receive loop ends on a lost connection while the client holds no
\* room reference, the client disconnects (connected and running become false,
\* the disconnect callback fires), and it never emits connection_lost or
\* reconnecting and never starts a reconnect thread.
C19_DisconnectOutsideRoom ==
    /\ [](LostOutsideRoom => <>Disconnected)
    /\ [](LostOutsideRoom => []NoReconnection)

C19_Witness ==
    /\ pc[Receiver] = "done"
    /\ saw[Receiver] = FALSE
    /\ wire = "down"
    /\ current_room_id = NoRoomId
    /\ Disconnected
    /\ Emitted = <<Event("connect", <<>>), Event("disconnect", <<>>)>>
    /\ disconnect_calls = 0

\* Thread t's call of disconnect() returns in this step.
DisconnectReturns(t) == pc[t] = "114" /\ pc'[t] # "114"

\* C20: a call of disconnect() made while is_reconnecting was true returns with
\* the socket closed and connected false, and has not invoked the disconnect
\* callback; a call made while is_reconnecting was false has invoked it once.
C20_DisconnectCallback ==
    [][\A t \in ClientThreads :
          DisconnectReturns(t)
              => IF saw[t]
                 THEN socket' = "none" /\ ~connected' /\ events' = events
                 ELSE events' = Append(events, Event("disconnect", <<>>))
      ]_vars

\* --------------------------------------------------------- frames and keepalive
\* Rooms are set up from the lobby; the readers receive good and bad lines.
NextFrames ==
    \/ Accept
    \/ \E cid \in ClientIds : InLobby(cid) /\ RoomCreate(cid)
    \/ \E cid \in ClientIds, rid \in RoomIds : InLobby(cid) /\ RoomJoin(cid, rid)
    \/ \E cid \in ClientIds, line \in Lines : ReadLine(cid, line)

SpecFrames == Init /\ [][NextFrames]_vars

\* C21: a line that is malformed JSON or invalid UTF-8 is dropped and does not
\* tear the connection down: the registry (the sender with it) and the rooms are
\* as before, and nothing is sent.
C21_BadFrameDropped ==
    [][\A cid \in ClientIds, line \in Lines :
          (~JsonLoads(line) /\ ReadLine(cid, line))
              => /\ players' = players
                 /\ rooms' = rooms
                 /\ sent' = <<>>
      ]_vars

\* ------------------------------------------------------- incomplete game_move
\* One room is set up from the lobby; its members send game_move messages with
\* and without row and col.
FieldValues == Coords \cup {Missing}

NextMoves ==
    \/ Accept
    \/ \E cid \in ClientIds : InLobby(cid) /\ next_room_id = 1 /\ RoomCreate(cid)
    \/ \E cid \in ClientIds, rid \in RoomIds : InLobby(cid) /\ RoomJoin(cid, rid)
    \/ \E cid \in ClientIds, row \in FieldValues, col \in FieldValues,
          player_id \in StoneIds, board_sync \in BOOLEAN :
              GameMove(cid, row, col, player_id, board_sync)

SpecMoves == Init /\ [][NextMoves]_vars

\* C22: a game_move without row or without col, whatever else it carries, changes
\* no room (board mirror, move log, current player, timer) and sends nothing.
C22_IncompleteMoveDropped ==
    [][\A cid \in ClientIds, row \in FieldValues, col \in FieldValues,
          player_id \in StoneIds, board_sync \in BOOLEAN :
          ((row = Missing \/ col = Missing)
              /\ GameMove(cid, row, col, player_id, board_sync))
              => /\ rooms' = rooms
                 /\ sent' = <<>>
      ]_vars

\* ------------------------------------------------------------------ keepalive
\* _handle_client, lines 239-243: recv times out and the reader finds the client
\* silent for more than 60 s; the loop ends in _remove_client (line 249)
ReaderTimeout(cid) ==
    /\ cid \in DOMAIN players
    /\ players[cid].socket # "none"
    /\ now - players[cid].last_ping > READER_SILENCE
    /\ Finish(RemoveClient(Server, cid, FALSE))
    /\ UNCHANGED <<next_client_id, now, reaper_running, threads, client_vars, app_vars>>

\* The connections on which the reference client runs its _ping_loop; the other
\* connections send what they like, or nothing.
KeepaliveClients == {1}

\* Time passes, but no further than the next ping of a keepalive client allows:
\* one is dispatched every PING_INTERVAL seconds, at most MaxPingDelay late.
Elapse ==
    /\ now + KeepaliveStep <= MaxTime
    /\ \A c \in KeepaliveClients \cap DOMAIN players :
          now + KeepaliveStep - players[c].last_ping <= PING_INTERVAL + MaxPingDelay
    /\ now' = now + KeepaliveStep
    /\ sent' = <<>>
    /\ exc' = FALSE
    /\ UNCHANGED <<players, rooms, next_client_id, next_room_id, link, reaper_running,
                   threads, client_vars, app_vars>>

NextKeepalive ==
    \/ Accept
    \/ Elapse
    \/ \E cid \in ClientIds : Ping(cid)
    \/ \E cid \in ClientIds : ReaderTimeout(cid)
    \/ ReaperScan

SpecKeepalive == Init /\ [][NextKeepalive]_vars

\* C23: a connected client whose keepalive pings are dispatched is not removed
\* from the registry, and keeps its socket, whatever the reaper's 90 s deadline and
\* the reader's 60 s silence check do.
C23_KeepaliveKeepsClient ==
    [][\A c \in KeepaliveClients :
          (c \in DOMAIN players /\ players[c].socket # "none")
              => (c \in DOMAIN players' /\ players'[c].socket # "none")
      ]_vars

\* The keepalive client has outlived both deadlines, and a silent client that
\* connected after it has been removed.
C23_Witness ==
    /\ \E c \in KeepaliveClients : c \in DOMAIN players /\ players[c].socket # "none"
    /\ now > PING_TIMEOUT
    /\ next_client_id > 2
    /\ 2 \notin DOMAIN players

\* C24: a reaper scan disconnects every connected player silent for more than
\* 90 s as an ordinary disconnect does: the player leaves the registry and every
\* roster, no room is left with an empty roster, and the other member of its
\* two-member room, unless timed out too, is sent game_ended_disconnect.
C24_ReaperDisconnects ==
    [][ReaperScan =>
          \A c \in ClientsToRemove :
              /\ c \notin DOMAIN players'
              /\ \A r \in RoomIds :
                    rooms'[r].live => /\ ~InSeq(rooms'[r].players, c)
                                      /\ rooms'[r].players # <<>>
              /\ \A r \in RoomIds, o \in ClientIds :
                    (TwoMemberRoom(r, c, o) /\ o \notin ClientsToRemove)
                        => MsgsTo(sent', o, "game_ended_disconnect") # {}
      ]_vars

\* ------------------------------ _handle_message: player_pause, player_resume
PauseTypes == {"player_pause", "player_resume"}

\* The data a client puts in player_pause (game_ui.py, lines 756-761); the server
\* does not look inside it.
PauseData ==
    [player : {"Player_2"},
     remaining_turn : {DEFAULT_MOVE_TIME_LIMIT},
     pauses_remaining : {0, 1}]

\* A relay that serves only senders with a pause left.
HandlePauseRelayCounted(S, cid, msg_type, data) ==
    IF S.players[cid].room_id = NoRoomId \/ ~InRooms(S, S.players[cid].room_id) THEN S
    ELSE IF data.pauses_remaining = 0 THEN S
    ELSE BroadcastToRoom(S, S.players[cid].room_id,
                         [type |-> msg_type, data |-> data], cid)

\* lines 415-429
HandlePauseRelay(S, cid, msg_type, data) ==
    IF S.players[cid].room_id = NoRoomId \/ ~InRooms(S, S.players[cid].room_id) THEN S
    ELSE BroadcastToRoom(S, S.players[cid].room_id,
                         [type |-> msg_type, data |-> data], cid)

PauseRelay(cid, msg_type, data) ==
    /\ CanDispatch(cid)
    /\ Finish(HandlePauseRelay(Dispatched(cid), cid, msg_type, data))
    /\ UNCHANGED <<next_client_id, now, reaper_running, threads, client_vars, app_vars>>

\* Pauses during games over healthy connections: rooms are created and joined
\* from the lobby, moves are committed, and any client sends player_pause and
\* player_resume with any payload at any moment.
NextPause ==
    \/ Accept
    \/ \E cid \in ClientIds : InLobby(cid) /\ next_room_id = 1 /\ RoomCreate(cid)
    \/ \E cid \in ClientIds, rid \in RoomIds : InLobby(cid) /\ RoomJoin(cid, rid)
    \/ \E cid \in ClientIds, row \in Coords, col \in Coords :
          GameMove(cid, row, col, 1, FALSE)
    \/ \E cid \in ClientIds, msg_type \in PauseTypes, data \in PauseData :
          PauseRelay(cid, msg_type, data)

SpecPause == Init /\ [][NextPause]_vars

\* The relay of (msg_type, data) from cid reached exactly the other members of
\* cid's room, once each, with the payload as sent.
RelayedToOthers(cid, msg_type, data) ==
    LET roster == rooms[players[cid].room_id].players
    IN  /\ \A i \in 1..Len(sent') :
              /\ sent'[i].to # cid
              /\ InSeq(roster, sent'[i].to)
              /\ sent'[i].type = msg_type
              /\ sent'[i].data = data
        /\ \A o \in ClientIds :
              (InSeq(roster, o) /\ o # cid) => Cardinality(MsgsTo(sent', o, msg_type)) = 1

\* C25: a player_pause or player_resume from a room member is relayed to every
\* other roster member of its room with the data unchanged, is never echoed to
\* the sender, whatever pause count the payload carries, and no room changes.
C25_PauseRelayed ==
    [][\A cid \in ClientIds, msg_type \in PauseTypes, data \in PauseData :
          (~InLobby(cid) /\ PauseRelay(cid, msg_type, data))
              => /\ rooms' = rooms
                 /\ RelayedToOthers(cid, msg_type, data)
      ]_vars

\* A pause with no pauses left has just been relayed to the other seat of a game
\* with a stone on the board.
C25_Witness ==
    \E i \in 1..Len(sent), r \in RoomIds :
        /\ sent[i].type = "player_pause"
        /\ sent[i].data.pauses_remaining = 0
        /\ rooms[r].live
        /\ Len(rooms[r].game_state.moves) > 0
        /\ InSeq(rooms[r].players, sent[i].to)

\* --------------------------------------------- game_ui.py: pause and resume
\* Two clients of one room in a network game.  The pygame loop (the UI thread)
\* and the receive thread of StableGomokuClient, which runs the message handlers
\* (stable_client.py, line 245), share the GomokuUI fields without a lock: a
\* click handler is followed from its test to its body, and a handler of the
\* receive thread may run in between.
per_pause_limit == 30     \* line 212
MaxUiTime == 60          \* the clock of the two clients stops here

\* `if self.turn_start_time:` and the like: None and 0 are false
Truthy(t) == t # NoTime /\ t # 0

Max0(x) == IF x > 0 THEN x ELSE 0

\* network_manager.send_message: the server relays the message to the other
\* member of the room (dedicated_server.py, lines 415-429).
SendToPeer(p, msg_type, data) ==
    inbox' = [inbox EXCEPT ![Opponent(p)] = Append(@, [type |-> msg_type, data |-> data])]

\* time.time() is the clock `now`, which the UI reads at positive values only.
UiTick ==
    /\ now + per_pause_limit <= MaxUiTime
    /\ now' = now + per_pause_limit
    /\ UNCHANGED <<players, rooms, next_client_id, next_room_id, link, reaper_running,
                   sent, exc, threads, client_vars, app_vars>>

UiOnly == UNCHANGED <<server_vars, client_vars, g, queue_vars, library_vars>>

\* _update, lines 1085-1087
UpdateTimer(p) ==
    /\ now > 0
    /\ ui[p].line = "idle"
    /\ ui[p].ui_state = "GAMEPLAY"
    /\ ui[p].turn_start_time = NoTime
    /\ ui' = [ui EXCEPT ![p].turn_start_time = now]
    /\ UNCHANGED inbox
    /\ UiOnly

\* _update, lines 1176-1186: the pause expires on this client
PauseExpired(p) ==
    /\ ui[p].line = "idle"
    /\ ui[p].paused
    /\ Truthy(ui[p].pause_start_time)
    /\ now - ui[p].pause_start_time >= per_pause_limit
    /\ ui' = [ui EXCEPT ![p].paused = FALSE, ![p].pause_start_time = NoTime,
                        ![p].pause_sent = FALSE, ![p].ui_state = "GAMEPLAY",
                        ![p].turn_start_time = now]
    /\ UNCHANGED inbox
    /\ UiOnly

\* _handle_gameplay_events, lines 733-738: a click on Pause passes the test
PauseClick(p) ==
    /\ now > 0
    /\ ui[p].line = "idle"
    /\ ui[p].ui_state = "GAMEPLAY"
    /\ ~ui[p].paused
    /\ ~ui[p].pause_sent
    /\ ui[p].pause_allowance[ui[p].current_player] > 0
    /\ ui' = [ui EXCEPT ![p].line = "739"]
    /\ UNCHANGED inbox
    /\ UiOnly

\* lines 739-761
PauseBody(p) ==
    LET u == ui[p]
        cur == u.current_player
        elapsed == IF Truthy(u.turn_start_time)
                   THEN u.elapsed_before_pause + (now - u.turn_start_time)
                   ELSE u.elapsed_before_pause
    IN  /\ u.line = "739"
        /\ ui' = [ui EXCEPT ![p] =
                     [u EXCEPT !.paused = TRUE, !.pause_initiator = p, !.pause_sent = TRUE,
                               !.ui_state = "PAUSE_MENU", !.pause_start_time = now,
                               !.pause_allowance[cur] = @ - 1,
                               !.elapsed_before_pause = elapsed,
                               !.turn_start_time = IF Truthy(@) THEN NoTime ELSE @,
                               !.line = "idle"]]
        /\ SendToPeer(p, "player_pause",
               [player |-> cur, remaining_turn |-> Max0(u.move_time_limit - elapsed),
                pauses_remaining |-> u.pause_allowance[cur] - 1, pause_timestamp |-> now])
        /\ UiOnly

\* _handle_gameplay_events, lines 766-767
MouseUp(p) ==
    /\ ui[p].line = "idle"
    /\ ui[p].ui_state = "GAMEPLAY"
    /\ ui[p].pause_sent
    /\ ui' = [ui EXCEPT ![p].pause_sent = FALSE]
    /\ UNCHANGED inbox
    /\ UiOnly

\* _handle_escape_key, lines 1040-1041
EscapeKey(p) ==
    /\ ui[p].line = "idle"
    /\ ui[p].ui_state = "PAUSE_MENU"
    /\ ui' = [ui EXCEPT ![p].ui_state = "GAMEPLAY"]
    /\ UNCHANGED inbox
    /\ UiOnly

\* run, lines 614-615, and _handle_pause_menu_events, lines 780-782: the Resume
\* control is activated
ResumeClick(p) ==
    /\ now > 0
    /\ ui[p].line = "idle"
    /\ ui[p].ui_state = "PAUSE_MENU"
    /\ ui' = [ui EXCEPT ![p].line = "784"]
    /\ UNCHANGED inbox
    /\ UiOnly

\* lines 784-786 (is_network_game is true)
ResumeCheck(p) ==
    /\ ui[p].line = "784"
    /\ ui' = [ui EXCEPT ![p].line = IF p # ui[p].pause_initiator THEN "idle" ELSE "789"]
    /\ UNCHANGED inbox
    /\ UiOnly

\* lines 789-813; pause_start_time is None when line 799 reads it
ResumeBody(p) ==
    LET u == ui[p]
    IN  /\ u.line = "789"
        /\ ui' = [ui EXCEPT ![p] =
                     [u EXCEPT !.paused = FALSE, !.pause_start_time = NoTime,
                               !.pause_sent = FALSE, !.turn_start_time = now,
                               !.ui_state = "GAMEPLAY", !.line = "idle"]]
        /\ SendToPeer(p, "player_resume",
               [player |-> u.current_player,
                remaining_turn |-> Max0(u.move_time_limit - u.elapsed_before_pause),
                pause_duration_used |-> 0])
        /\ UiOnly

\* handle_player_pause, lines 2848-2881
handle_player_pause(u, p, data) ==
    [u EXCEPT !.paused = TRUE, !.ui_state = "PAUSE_MENU",
              !.pause_start_time = data.pause_timestamp,
              !.pause_initiator = Opponent(p),
              !.pause_allowance[Opponent(p)] = data.pauses_remaining,
              !.turn_start_time = NoTime,
              !.elapsed_before_pause = u.move_time_limit - data.remaining_turn]

\* handle_player_resume, lines 2883-2897
handle_player_resume(u, data) ==
    [u EXCEPT !.paused = FALSE, !.pause_start_time = NoTime, !.ui_state = "GAMEPLAY",
              !.pause_initiator = "None",
              !.elapsed_before_pause = u.move_time_limit - data.remaining_turn,
              !.turn_start_time = now]

\* stable_client.py, lines 244-245: the receive thread hands the next relayed
\* message to its handler
DeliverPause(p) ==
    /\ inbox[p] # <<>>
    /\ Head(inbox[p]).type = "player_pause"
    /\ ui' = [ui EXCEPT ![p] = handle_player_pause(@, p, Head(inbox[p]).data)]
    /\ inbox' = [inbox EXCEPT ![p] = Tail(@)]
    /\ UiOnly

DeliverResume(p) ==
    /\ inbox[p] # <<>>
    /\ Head(inbox[p]).type = "player_resume"
    /\ ui' = [ui EXCEPT ![p] = handle_player_resume(@, Head(inbox[p]).data)]
    /\ inbox' = [inbox EXCEPT ![p] = Tail(@)]
    /\ UiOnly

NextPauseUi ==
    \/ UiTick
    \/ \E p \in UiPlayers : UpdateTimer(p)
    \/ \E p \in UiPlayers : PauseExpired(p)
    \/ \E p \in UiPlayers : PauseClick(p)
    \/ \E p \in UiPlayers : PauseBody(p)
    \/ \E p \in UiPlayers : MouseUp(p)
    \/ \E p \in UiPlayers : EscapeKey(p)
    \/ \E p \in UiPlayers : ResumeClick(p)
    \/ \E p \in UiPlayers : ResumeCheck(p)
    \/ \E p \in UiPlayers : ResumeBody(p)
    \/ \E p \in UiPlayers : DeliverPause(p)
    \/ \E p \in UiPlayers : DeliverResume(p)

SpecPauseUi == Init /\ [][NextPauseUi]_vars

\* The client was paused by its peer's player_pause: handle_player_pause has
\* recorded the peer as the pause's initiator.
PausedByPeer(p) == ui[p].paused /\ ui[p].pause_initiator = Opponent(p)

\* The step is one of p's Resume handler.
ResumeStep(p) == ui[p].line \in {"784", "789"} /\ ui'[p].line # ui[p].line

SendsResume(p) ==
    /\ Len(inbox'[Opponent(p)]) = Len(inbox[Opponent(p)]) + 1
    /\ inbox'[Opponent(p)][Len(inbox'[Opponent(p)])].type = "player_resume"

\* C26: a client paused by its peer's player_pause sends no player_resume and
\* stays paused when its Resume control is activated; a player_resume is sent
\* only by the client that initiated the pause.
C26_OnlyInitiatorResumes ==
    [][\A p \in UiPlayers :
          /\ (PausedByPeer(p) /\ ResumeStep(p)) => (ui'[p].paused /\ ~SendsResume(p))
          /\ SendsResume(p) => ui[p].pause_initiator = p
      ]_vars

\* ------------------------------------------------ game_ui.py: timer messages
MaxInbox == 1     \* relayed messages waiting at one client

\* `if timer_state:` ... lines 2934-2943 and 2589-2599
SyncTimer(u, timer_state) ==
    [u EXCEPT !.move_time_limit = timer_state.move_time_limit,
              !.turn_start_time = now,
              !.elapsed_before_pause =
                  IF Truthy(timer_state.turn_start_time)
                  THEN now - timer_state.turn_start_time
                  ELSE 0]

\* handle_timer_sync, lines 2931-2943
handle_timer_sync(u, data) == SyncTimer(u, data.timer_state)

\* gomoku_game.py, is_valid_move (lines 98-102) and the test of make_move (line
\* 109): the game is in play as long as fewer than five stones are on the board
is_valid_move(u, row, col) ==
    row \in Coords /\ col \in Coords /\ <<row, col>> \notin u.board

\* gomoku_game.py, make_move, lines 112-134, without a win or a full board
make_move(u, row, col) ==
    [u EXCEPT !.board = @ \cup {<<row, col>>}, !.current_player = Opponent(@)]

\* _handle_network_move, lines 2581-2615
HandleNetworkMove(u, row, col, timer_state) ==
    IF is_valid_move(u, row, col)
    THEN SyncTimer(make_move(u, row, col), timer_state)
    ELSE u

\* dedicated_server.py, lines 618-643: the server commits the game_move of seat p
\* at the time `now`, answers with timer_sync and relays game_move to the peer
ServerCommits(p, row, col) ==
    LET timer_state == [turn_start_time |-> now, elapsed_before_pause |-> 0,
                        move_time_limit |-> DEFAULT_MOVE_TIME_LIMIT]
        player_id == IF p = "BLACK" THEN 1 ELSE 2
    IN  inbox' = [q \in UiPlayers |->
                     IF q = p THEN Append(inbox[q], TimerSyncMsg(timer_state))
                     ELSE Append(inbox[q], GameMoveMsg(p, row, col, player_id, timer_state))]

\* _handle_gameplay_events, lines 770-774, _can_make_move and _make_move
LocalMove(p, row, col) ==
    /\ now > 0
    /\ ui[p].line = "idle"
    /\ ui[p].ui_state = "GAMEPLAY"
    /\ ui[p].current_player = p
    /\ is_valid_move(ui[p], row, col)
    /\ Cardinality(ui[p].board) < MaxMoves
    /\ \A q \in UiPlayers : Len(inbox[q]) < MaxInbox
    /\ ui' = [ui EXCEPT ![p] = [make_move(@, row, col) EXCEPT !.turn_start_time = now,
                                                            !.elapsed_before_pause = 0]]
    /\ ServerCommits(p, row, col)
    /\ UiOnly

\* A game_move for any cell that seat p's connection sends without the checks of
\* _can_make_move: the server commits and relays it (dedicated_server.py, lines
\* 578-643, test neither the turn nor the cell).
RelayedMove(p, row, col) ==
    /\ now > 0
    /\ \A q \in UiPlayers : Len(inbox[q]) < MaxInbox
    /\ ServerCommits(p, row, col)
    /\ UNCHANGED ui
    /\ UiOnly

DeliverTimerSync(p) ==
    /\ inbox[p] # <<>>
    /\ Head(inbox[p]).type = "timer_sync"
    /\ ui' = [ui EXCEPT ![p] = handle_timer_sync(@, Head(inbox[p]))]
    /\ inbox' = [inbox EXCEPT ![p] = Tail(@)]
    /\ UiOnly

\* handle_game_move, lines 2925-2929
DeliverMove(p) ==
    /\ inbox[p] # <<>>
    /\ Head(inbox[p]).type = "game_move"
    /\ ui' = [ui EXCEPT ![p] = HandleNetworkMove(@, Head(inbox[p]).row, Head(inbox[p]).col,
                                                 Head(inbox[p]).timer_state)]
    /\ inbox' = [inbox EXCEPT ![p] = Tail(@)]
    /\ UiOnly

NextTimerUi ==
    \/ UiTick
    \/ \E p \in UiPlayers : UpdateTimer(p)
    \/ \E p \in UiPlayers, row \in Coords, col \in Coords : LocalMove(p, row, col)
    \/ \E p \in UiPlayers, row \in Coords, col \in Coords : RelayedMove(p, row, col)
    \/ \E p \in UiPlayers : DeliverTimerSync(p)
    \/ \E p \in UiPlayers : DeliverMove(p)

SpecTimerUi == Init /\ [][NextTimerUi]_vars

\* Client p has just handled the timer-bearing message at the head of its inbox.
HandledTimerMessage(p) ==
    /\ inbox[p] # <<>>
    /\ Head(inbox[p]).type \in {"timer_sync", "game_move"}
    /\ inbox'[p] = Tail(inbox[p])

\* C27: after a client has handled timer_sync, or game_move with a timer_state,
\* its elapsed turn time elapsed_before_pause + (t - turn_start_time) is, at any
\* time t, t minus the turn_start_time the server put in the message.
C27_TimerAnchoredAtServer ==
    [][\A p \in UiPlayers :
          HandledTimerMessage(p)
              => /\ ui'[p].turn_start_time # NoTime
                 /\ ui'[p].elapsed_before_pause - ui'[p].turn_start_time
                        = 0 - Head(inbox[p]).timer_state.turn_start_time
      ]_vars

\* ------------------------------------------------------- the committed stone
\* C28: the stone written into the board mirror for a committed move is the
\* colour of the sender's seat, 1 (Black) for roster[0] and 2 (White) for
\* roster[1], whatever player_id the game_move carries.
C28_StoneIsSeatColour ==
    [][\A cid \in ClientIds, row \in Coords, col \in Coords, player_id \in StoneIds,
          board_sync \in BOOLEAN :
          (MoveAdmitted(Server, cid) /\ GameMove(cid, row, col, player_id, board_sync))
              => rooms'[players[cid].room_id].game_state.board[<<row, col>>]
                     = IndexOf(rooms[players[cid].room_id].players, cid)
      ]_vars

\* ------------------------------------------------------ gomoku.py: Gomoku
InBoard(row, col) ==
    0 <= row /\ row < GomokuSize /\ 0 <= col /\ col < GomokuSize

\* _check_win_from, lines 43-48 and 50-54: the stones of player met from (r, c)
\* on, stepping by (dr, dc), before the edge or another cell content
RECURSIVE CountRun(_, _, _, _, _, _)
CountRun(board, player, r, c, dr, dc) ==
    IF InBoard(r, c) /\ board[<<r, c>>] = player
    THEN 1 + CountRun(board, player, r + dr, c + dc, dr, dc)
    ELSE 0

\* line 40
directions == {<<1, 0>>, <<0, 1>>, <<1, 1>>, <<1, -1>>}

\* The win test with the count compared for equality.
check_win_exact(board, row, col) ==
    \E d \in directions :
        1 + CountRun(board, board[<<row, col>>], row + d[1], col + d[2], d[1], d[2])
          + CountRun(board, board[<<row, col>>], row - d[1], col - d[2], 0 - d[1], 0 - d[2])
            = win_len

\* _check_win_from, lines 38-57
check_win_from(board, row, col) ==
    \E d \in directions :
        1 + CountRun(board, board[<<row, col>>], row + d[1], col + d[2], d[1], d[2])
          + CountRun(board, board[<<row, col>>], row - d[1], col - d[2], 0 - d[1], 0 - d[2])
            >= win_len

\* What a call of place leaves: the value it returns and the object.
Returns(value, G) == [returned |-> value, self |-> G]

\* A place that writes the stone without the test of the cell.
place_over(G, row, col) ==
    IF G.winner # None \/ ~InBoard(row, col) THEN Returns(FALSE, G)
    ELSE LET board == [G.board EXCEPT ![<<row, col>>] = G.current_player]
         IN  IF check_win_from(board, row, col)
             THEN Returns(TRUE, [G EXCEPT !.board = board, !.winner = G.current_player])
             ELSE Returns(TRUE, [G EXCEPT !.board = board, !.current_player = 3 - @])

\* place, lines 23-36
place(G, row, col) ==
    IF G.winner # None THEN Returns(FALSE, G)
    ELSE IF ~InBoard(row, col) THEN Returns(FALSE, G)
    ELSE IF G.board[<<row, col>>] # 0 THEN Returns(FALSE, G)
    ELSE LET board == [G.board EXCEPT ![<<row, col>>] = G.current_player]
         IN  IF check_win_from(board, row, col)
             THEN Returns(TRUE, [G EXCEPT !.board = board, !.winner = G.current_player])
             ELSE Returns(TRUE, [G EXCEPT !.board = board,
                                          !.current_player = IF @ = 2 THEN 1 ELSE 2])

\* The arguments of place: the cells of the board and one step outside it.
PlaceArgs == -1..GomokuSize

MaxStones == 4

StonesOn(board) == Cardinality({sq \in Squares : board[sq] # 0})

EngineOnly == UNCHANGED <<server_vars, client_vars, ui, inbox, queue_vars, library_vars>>

\* g.place(row, col); the game is followed up to MaxStones stones
Place(row, col) ==
    /\ StonesOn(g.board) < MaxStones
    /\ g' = place(g, row, col).self
    /\ EngineOnly

\* test_gomoku.py, lines 17 and 21: g.current_player = p
SetCurrentPlayer(p) ==
    /\ g.winner = None
    /\ g.current_player # p
    /\ g' = [g EXCEPT !.current_player = p]
    /\ EngineOnly

\* reset, lines 18-21
Reset ==
    /\ g.winner # None
    /\ g' = GomokuInit
    /\ EngineOnly

NextGomoku ==
    \/ \E row \in PlaceArgs, col \in PlaceArgs : Place(row, col)
    \/ \E p \in {1, 2} : SetCurrentPlayer(p)
    \/ Reset

SpecGomoku == Init /\ [][NextGomoku]_vars

\* What place(row, col) has to refuse.
Refused(row, col) ==
    g.winner # None \/ ~InBoard(row, col) \/ g.board[<<row, col>>] # 0

\* C29: place on an occupied cell, outside the board, or once a winner is set
\* returns False and leaves board, current_player and winner unchanged; on an
\* empty cell of the board with no winner it returns True and writes the current
\* player's marker there.
C29_PlaceValidates ==
    \A row \in PlaceArgs, col \in PlaceArgs :
        LET call == place(g, row, col)
        IN  IF Refused(row, col)
            THEN ~call.returned /\ call.self = g
            ELSE /\ call.returned
                 /\ call.self.board = [g.board EXCEPT ![<<row, col>>] = g.current_player]

\* The board holds stones of both players and a winner is set: place has written
\* stones, and refuses every cell, the empty ones too.
C29_Witness ==
    /\ g.winner # None
    /\ \E sq \in Squares : g.board[sq] = 1
    /\ \E sq \in Squares : g.board[sq] = 2
    /\ \E sq \in Squares : g.board[sq] = 0

\* The four lines through a cell: row, column and the two diagonals.
LinesThrough == {<<0, 1>>, <<1, 0>>, <<1, 1>>, <<1, -1>>}

\* The cell (row, col) lies in win_len contiguous cells of one line that all
\* hold p, that is, in a run of at least win_len stones of p.
InRun(board, p, row, col) ==
    \E d \in LinesThrough, k \in 0..(win_len - 1) :
        \A i \in 0..(win_len - 1) :
            /\ InBoard(row + (i - k) * d[1], col + (i - k) * d[2])
            /\ board[<<row + (i - k) * d[1], col + (i - k) * d[2]>>] = p

\* C30: after a successful place by player p, winner is p exactly when the placed
\* stone lies in a run of at least win_len stones of p along a row, a column or a
\* diagonal, and then current_player stays p; otherwise winner stays None and
\* current_player becomes the other player.
C30_WinnerIffRun ==
    \A row \in PlaceArgs, col \in PlaceArgs :
        ~Refused(row, col)
            => LET after == place(g, row, col).self
                   p == g.current_player
               IN  IF InRun(after.board, p, row, col)
                   THEN after.winner = p /\ after.current_player = p
                   ELSE after.winner = None /\ after.current_player = 3 - p

\* A game won with a run longer than win_len: the last stone joined two shorter
\* runs of the winner.
C30_Witness ==
    /\ g.winner # None
    /\ g.current_player = g.winner
    /\ \E sq \in Squares, d \in LinesThrough :
          \A i \in 0..win_len :
              /\ InBoard(sq[1] + i * d[1], sq[2] + i * d[2])
              /\ g.board[<<sq[1] + i * d[1], sq[2] + i * d[2]>>] = g.winner

\* ------------------------------------------------- who mutates rooms and registry
\* C31: the room map, the rosters, host_ids and the player registry are mutated
\* only by the dispatcher thread: no step of a reader thread or of the reaper
\* (a step inside their call of _remove_client, which moves threads) changes a
\* room or the registry, so that all mutations are ordered by the dispatcher.
C31_OnlyDispatcherMutates ==
    [][(rooms' # rooms \/ players' # players) => threads' = threads]_vars

\* ------------------------------------------------------------ message queue
\* Readers and the dispatcher share message_queue under queue_lock.
MaxEnqueued == 2

QueueOnly == UNCHANGED <<server_vars, client_vars, ui, inbox, g, library_vars>>

\* A loop test that read self.running once, before stop().
StaleRunning(t) == TRUE

\* `while self.running` (lines 175, 215, 258, 862), as thread t reads it
StillRunning(t) == server_running

\* `with self.queue_lock:` entered without waiting for the lock.
AcquireUnlocked(t) == queue_lock' = queue_lock

\* `with self.queue_lock:` (lines 253, 262): the thread waits until the lock is free
Acquire(t) == queue_lock = Unlocked /\ queue_lock' = t

\* _handle_client, line 235, calls _queue_message, line 253
Queue253(cid) ==
    /\ server_pc[Reader(cid)] = "215"
    /\ StillRunning(Reader(cid))
    /\ enqueued[cid] < MaxEnqueued
    /\ Acquire(Reader(cid))
    /\ server_pc' = [server_pc EXCEPT ![Reader(cid)] = "254"]
    /\ UNCHANGED <<server_running, message_queue, messages_to_process, handled, enqueued>>
    /\ QueueOnly

\* _queue_message, line 254, and the end of the with block
Queue254(cid) ==
    /\ server_pc[Reader(cid)] = "254"
    /\ message_queue' = Append(message_queue, <<cid, enqueued[cid] + 1>>)
    /\ enqueued' = [enqueued EXCEPT ![cid] = @ + 1]
    /\ queue_lock' = IF queue_lock = Reader(cid) THEN Unlocked ELSE queue_lock
    /\ server_pc' = [server_pc EXCEPT ![Reader(cid)] = "215"]
    /\ UNCHANGED <<server_running, messages_to_process, handled>>
    /\ QueueOnly

\* _process_messages, lines 258-262
Process262 ==
    /\ server_pc[Dispatcher] = "258"
    /\ StillRunning(Dispatcher)
    /\ Acquire(Dispatcher)
    /\ server_pc' = [server_pc EXCEPT ![Dispatcher] = "263"]
    /\ UNCHANGED <<server_running, message_queue, messages_to_process, handled, enqueued>>
    /\ QueueOnly

\* line 263
Process263 ==
    /\ server_pc[Dispatcher] = "263"
    /\ messages_to_process' = message_queue
    /\ server_pc' = [server_pc EXCEPT ![Dispatcher] = "264"]
    /\ UNCHANGED <<server_running, message_queue, queue_lock, handled, enqueued>>
    /\ QueueOnly

\* line 264, and the end of the with block
Process264 ==
    /\ server_pc[Dispatcher] = "264"
    /\ message_queue' = <<>>
    /\ queue_lock' = IF queue_lock = Dispatcher THEN Unlocked ELSE queue_lock
    /\ server_pc' = [server_pc EXCEPT ![Dispatcher] = "267"]
    /\ UNCHANGED <<server_running, messages_to_process, handled, enqueued>>
    /\ QueueOnly

\* lines 267-271: the next message of the batch goes to _handle_message; an
\* exception of the handler is caught and the loop goes on
Process267 ==
    /\ server_pc[Dispatcher] = "267"
    /\ IF messages_to_process # <<>>
       THEN /\ handled' = Append(handled, Head(messages_to_process))
            /\ messages_to_process' = Tail(messages_to_process)
            /\ UNCHANGED server_pc
       ELSE /\ server_pc' = [server_pc EXCEPT ![Dispatcher] = "273"]
            /\ UNCHANGED <<handled, messages_to_process>>
    /\ UNCHANGED <<server_running, message_queue, queue_lock, enqueued>>
    /\ QueueOnly

\* line 273
Process273 ==
    /\ server_pc[Dispatcher] = "273"
    /\ server_pc' = [server_pc EXCEPT ![Dispatcher] = "258"]
    /\ UNCHANGED <<server_running, message_queue, queue_lock, messages_to_process,
                   handled, enqueued>>
    /\ QueueOnly

\* Readers queue and the dispatcher drains, the server running.
NextQueue ==
    \/ \E cid \in QueueClients : Queue253(cid)
    \/ \E cid \in QueueClients : Queue254(cid)
    \/ Process262
    \/ Process263
    \/ Process264
    \/ Process267
    \/ Process273

SpecQueue == Init /\ [][NextQueue]_vars

\* The messages of one connection in a sequence of pairs, in order.
RECURSIVE MessagesOf(_, _)
MessagesOf(pairs, cid) ==
    IF pairs = <<>> THEN <<>>
    ELSE IF Head(pairs)[1] = cid THEN <<Head(pairs)[2]>> \o MessagesOf(Tail(pairs), cid)
    ELSE MessagesOf(Tail(pairs), cid)

\* C32: while the server runs, every pair a reader queued is given to the
\* handler exactly once and in the order of its connection: what has been
\* handled of a connection is always its first messages, each once, in order,
\* and when the queue and the batch are empty and no thread is inside a locked
\* block, all of them.
C32_QueuedHandledOnceInOrder ==
    \A cid \in QueueClients :
        LET done == MessagesOf(handled, cid)
        IN  /\ Len(done) <= enqueued[cid]
            /\ \A i \in 1..Len(done) : done[i] = i
            /\ (/\ message_queue = <<>>
                /\ messages_to_process = <<>>
                /\ server_pc[Dispatcher] \in {"258", "267", "273"}
                /\ server_pc[Reader(cid)] = "215") => Len(done) = enqueued[cid]

\* A reader is inside its locked block, about to append, while the dispatcher
\* is working through a batch of which it has handled a message already.
C32_Witness ==
    /\ \E cid \in QueueClients : server_pc[Reader(cid)] = "254"
    /\ server_pc[Dispatcher] = "267"
    /\ messages_to_process # <<>>
    /\ handled # <<>>

\* ------------------------------------------------------ moves while paused
\* The step before this one relayed a player_pause to a member of room r: the
\* room is paused, no player_resume has been relayed since.
JustPaused(r) ==
    \E i \in 1..Len(sent) :
        /\ sent[i].type = "player_pause"
        /\ InSeq(rooms[r].players, sent[i].to)

\* C33: while a room is paused (a player_pause has been relayed in it and the
\* matching player_resume has not) the server rejects every game_move for the
\* room: the board, the move log and the turn stay as they are and no game_move
\* or timer_sync is sent.  Stated for the step that follows the relay of the
\* player_pause.
C33_NoMoveWhilePaused ==
    [][\A r \in RoomIds :
          (rooms[r].live /\ JustPaused(r))
              => /\ rooms'[r].game_state = rooms[r].game_state
                 /\ \A i \in 1..Len(sent') : sent'[i].type \notin {"game_move", "timer_sync"}]_vars

\* ------------------------------------------------------------------ shutdown
\* stop(), lines 152-171: the flag flips; the sockets it closes make accept,
\* select and recv raise, which the loops below take like a timeout.
Stop ==
    /\ server_running
    /\ server_running' = FALSE
    /\ UNCHANGED <<message_queue, queue_lock, messages_to_process, handled, enqueued,
                   server_pc>>
    /\ QueueOnly

ThreadOnly ==
    /\ UNCHANGED <<server_running, message_queue, queue_lock, messages_to_process,
                   handled, enqueued>>
    /\ QueueOnly

\* _accept_connections, line 175
Accept175 ==
    /\ server_pc[Acceptor] = "175"
    /\ server_pc' = [server_pc EXCEPT ![Acceptor] =
                        IF StillRunning(Acceptor) THEN "177" ELSE "exit"]
    /\ ThreadOnly

\* lines 177-209: accept() returns a connection, times out after 1.0 s (line
\* 131), or raises; each way leads back to the loop test
Accept177 ==
    /\ server_pc[Acceptor] = "177"
    /\ server_pc' = [server_pc EXCEPT ![Acceptor] = "175"]
    /\ ThreadOnly

\* _process_messages, line 258: the loop ends
Process258 ==
    /\ server_pc[Dispatcher] = "258"
    /\ ~StillRunning(Dispatcher)
    /\ server_pc' = [server_pc EXCEPT ![Dispatcher] = "exit"]
    /\ ThreadOnly

\* _cleanup_loop, lines 862-875: the loop test, then the scan and the removals;
\* an exception of _remove_client ends the thread
Cleanup862 ==
    /\ server_pc[Reaper] = "862"
    /\ \E raised \in BOOLEAN :
          server_pc' = [server_pc EXCEPT ![Reaper] =
                           IF ~StillRunning(Reaper) \/ raised THEN "exit" ELSE "877"]
    /\ ThreadOnly

\* line 877: time.sleep(30) returns
Cleanup877 ==
    /\ server_pc[Reaper] = "877"
    /\ server_pc' = [server_pc EXCEPT ![Reaper] = "862"]
    /\ ThreadOnly

\* _handle_client, line 215: the loop ends (of the two tests only self.running
\* is followed: the connection stays registered)
Handle215(cid) ==
    /\ server_pc[Reader(cid)] = "215"
    /\ ~StillRunning(Reader(cid))
    /\ server_pc' = [server_pc EXCEPT ![Reader(cid)] = "249"]
    /\ ThreadOnly

\* line 249: _remove_client returns or raises, the thread ends
Handle249(cid) ==
    /\ server_pc[Reader(cid)] = "249"
    /\ server_pc' = [server_pc EXCEPT ![Reader(cid)] = "exit"]
    /\ ThreadOnly

\* What each thread can do next.
ThreadStep(t) ==
    \/ t = Acceptor /\ (Accept175 \/ Accept177)
    \/ t = Dispatcher /\ (Process258 \/ Process262 \/ Process263 \/ Process264
                          \/ Process267 \/ Process273)
    \/ t = Reaper /\ (Cleanup862 \/ Cleanup877)
    \/ \E cid \in QueueClients :
          t = Reader(cid) /\ (Queue253(cid) \/ Queue254(cid) \/ Handle215(cid)
                              \/ Handle249(cid))

NextStop ==
    \/ Stop
    \/ Accept175
    \/ Accept177
    \/ Process258
    \/ Process262
    \/ Process263
    \/ Process264
    \/ Process267
    \/ Process273
    \/ Cleanup862
    \/ Cleanup877
    \/ \E cid \in QueueClients : Queue253(cid)
    \/ \E cid \in QueueClients : Queue254(cid)
    \/ \E cid \in QueueClients : Handle215(cid)
    \/ \E cid \in QueueClients : Handle249(cid)

\* Every thread of the server keeps being scheduled.
SpecStop ==
    Init /\ [][NextStop]_vars /\ \A t \in ServerThreads : WF_vars(ThreadStep(t))

AllExited == \A t \in ServerThreads : server_pc[t] = "exit"

\* C34: after stop() has set running to false, the acceptor loop, the
\* dispatcher loop, the reaper loop and every reader loop eventually exit.
C34_LoopsExitAfterStop == (~server_running) ~> AllExited

\* stop() was called while a batch was being handled and a message was still
\* queued; every thread has ended.
C34_Witness ==
    /\ ~server_running
    /\ AllExited
    /\ handled # <<>>
    /\ message_queue # <<>>

\* ------------------------------------------------ the client's room reference
\* The client object of this model is the first connection the server accepts.
client_connection == CHOOSE c \in ClientIds : \A d \in ClientIds : c <= d

\* What the server wrote to the client in its last step, in order.
SentToClient == SelectSeq(sent, LAMBDA m : m.to = client_connection)

\* _receive_loop, lines 182-189: every complete line of the buffer is handled
RECURSIVE HandleMessages(_, _)
HandleMessages(c, msgs) ==
    IF msgs = <<>> THEN c
    ELSE HandleMessages(HandleMessage(c, Head(msgs).type), Tail(msgs))

\* lines 175-189: recv returns what the server wrote
ReceiveFromServer ==
    /\ pc[Receiver] = "175"
    /\ socket = "open" /\ wire = "up"
    /\ SentToClient # <<>>
    /\ Become(HandleMessages([self EXCEPT !.pc[Receiver] = "172"], SentToClient))

\* The client connects and stays; it and the other connections create a room or
\* join one from the lobby; then the connection may die.
NextRoomRef ==
    \/ UserConnect
    \/ Connect62(User)
    \/ Connect64(User, TRUE)
    \/ Connect70(User)
    \/ Connect71(User)
    \/ Connect72(User)
    \/ Connect76(User)
    \/ Receive172
    \/ ReceiveFromServer
    \/ (next_client_id = client_connection => wire = "up") /\ Accept
    \/ \E cid \in ClientIds : InLobby(cid) /\ next_room_id = 1 /\ RoomCreate(cid)
    \/ \E cid \in ClientIds, rid \in RoomIds : InLobby(cid) /\ RoomJoin(cid, rid)
    \/ current_room_id = NoRoomId /\ ~InLobby(client_connection) /\ WireDown
    \/ ReceiveBreak
    \/ Receive200

SpecRoomRef == Init /\ [][NextRoomRef]_vars

\* The receive thread handles a room_info with success = true.
ReceivesRoomInfo ==
    /\ pc[Receiver] = "175" /\ pc'[Receiver] = "172"
    /\ \E i \in 1..Len(SentToClient) :
          SentToClient[i].type = "room_info" /\ SentToClient[i].success

\* C35: once the client has received the room_info with success = true that
\* answers its create_room or join_room, it holds a room reference:
\* current_room_id is set and is_in_room() is true.
C35_RoomReferenceHeld ==
    [][ReceivesRoomInfo => current_room_id' # NoRoomId]_vars

\* ---------------------------------------------------- after the UI disconnects
\* The UI's call of disconnect() has returned (the UI of this model calls
\* connect() once, before it).
UserDisconnected == disconnect_calls > 0 /\ pc[User] = "idle"

\* C36: after the UI's disconnect() has returned, no thread of the client
\* enters connect() and the client does not become connected again: a
\* disconnect() issued during the reconnection loop stops the loop.
C36_DisconnectStopsReconnect ==
    [][UserDisconnected
          => /\ \A t \in ClientThreads : pc'[t] = "62" => pc[t] = "62"
             /\ connected' => connected]_vars

\* ------------------------------------------------------ rosters and registry
\* C37: every roster entry of every room is a registered player whose room_id
\* is that room, and every registered player whose room_id is set names an
\* existing room whose roster contains it.
C37_RostersMatchRegistry ==
    /\ \A r \in RoomIds :
          rooms[r].live =>
              \A i \in 1..Len(rooms[r].players) :
                  LET c == rooms[r].players[i]
                  IN  c \in DOMAIN players /\ players[c].room_id = r
    /\ \A c \in DOMAIN players :
          players[c].room_id # NoRoomId =>
              /\ rooms[players[c].room_id].live
              /\ InSeq(rooms[players[c].room_id].players, c)

\* --------------------------------------------- GomokuGame: make_move, undo_move
\* check_win, lines 166-183: the stones of player from (r, c) on, by (dr, dc)
RECURSIVE GameCount(_, _, _, _, _, _)
GameCount(board, player, r, c, dr, dc) ==
    IF <<r, c>> \in GameCells /\ board[<<r, c>>] = player
    THEN 1 + GameCount(board, player, r + dr, c + dc, dr, dc)
    ELSE 0

\* check_win, lines 151-187
check_win(board, row, col) ==
    /\ board[<<row, col>>] # 0
    /\ \E d \in {<<0, 1>>, <<1, 0>>, <<1, 1>>, <<1, -1>>} :
          1 + GameCount(board, board[<<row, col>>], row + d[1], col + d[2], d[1], d[2])
            + GameCount(board, board[<<row, col>>], row - d[1], col - d[2],
                        0 - d[1], 0 - d[2]) >= WIN_LENGTH

\* is_board_full, lines 189-195
is_board_full(board) == \A sq \in GameCells : board[sq] # 0

\* is_valid_move of the game object, lines 98-102
GameValidMove(G, row, col) == <<row, col>> \in GameCells /\ G.board[<<row, col>>] = 0

\* make_move, lines 104-136
GameMakeMove(G, row, col) ==
    IF ~GameValidMove(G, row, col) \/ G.game_state # "playing" THEN Returns(FALSE, G)
    ELSE LET placed == [G EXCEPT !.board[<<row, col>>] = G.current_player,
                                 !.move_history = Append(@, [row |-> row, col |-> col,
                                                             player |-> G.current_player])]
         IN  IF check_win(placed.board, row, col)
             THEN Returns(TRUE, [placed EXCEPT
                                    !.winner = G.current_player,
                                    !.game_state = IF G.current_player = 2
                                                   THEN "white_wins" ELSE "black_wins"])
             ELSE IF is_board_full(placed.board)
             THEN Returns(TRUE, [placed EXCEPT !.game_state = "draw"])
             ELSE LET index == (G.player_index + 1) % Len(G.players)
                  IN  Returns(TRUE, [placed EXCEPT !.player_index = index,
                                                   !.current_player = G.players[index + 1]])

\* undo_move, lines 138-149
undo_move(G) ==
    IF G.move_history = <<>> THEN Returns(FALSE, G)
    ELSE LET last_move == G.move_history[Len(G.move_history)]
         IN  Returns(TRUE, [G EXCEPT
                               !.move_history = SubSeq(@, 1, Len(@) - 1),
                               !.board[<<last_move.row, last_move.col>>] = 0,
                               !.current_player = last_move.player,
                               !.game_state = "playing",
                               !.winner = 0])

MaxGameMoves == 5

GameOnly == UNCHANGED <<server_vars, client_vars, ui, inbox, g, queue_vars, nm, update_task, delivered,
                        lobby, lobby_time>>

\* game.make_move(row, col); histories of up to MaxGameMoves moves are followed
MakeMove(row, col) ==
    /\ Len(game.move_history) < MaxGameMoves
    /\ game' = GameMakeMove(game, row, col).self
    /\ GameOnly

\* game.undo_move()
UndoMove ==
    /\ game' = undo_move(game).self
    /\ GameOnly

\* game.reset_game(), lines 87-95
ResetGame ==
    /\ game.game_state # "playing"
    /\ game' = GameInit
    /\ GameOnly

NextUndo ==
    \/ \E row \in 0..BOARD_SIZE - 1, col \in 0..BOARD_SIZE - 1 : MakeMove(row, col)
    \/ UndoMove
    \/ ResetGame

SpecUndo == Init /\ [][NextUndo]_vars

\* C38: in a game in the PLAYING state a successful make_move followed by
\* undo_move restores the game: board and move history are as before, the same
\* player is to move, and the rotation goes on as without the undone move: the
\* player to move after the next make_move is the one it would have been.
C38_UndoRestores ==
    game.game_state = "playing" =>
        \A sq \in GameCells :
            GameValidMove(game, sq[1], sq[2]) =>
                LET undone == undo_move(GameMakeMove(game, sq[1], sq[2]).self).self
                IN  /\ undone.board = game.board
                    /\ undone.move_history = game.move_history
                    /\ undone.current_player = game.current_player
                    /\ \A next \in GameCells :
                          GameMakeMove(undone, next[1], next[2]).self.current_player
                              = GameMakeMove(game, next[1], next[2]).self.current_player

\* ------------------------------------------ NetworkManager: queued updates
MaxUpdates == 3
MaxPackages == 3

NetworkOnly == UNCHANGED <<server_vars, client_vars, ui, inbox, g, queue_vars, game, lobby, lobby_time>>

\* line 54: self.message_queue.get(game_id, []) returns the queued list itself
\* when the key exists, and a new empty list otherwise
UpdatesIsQueue(has_key) == has_key

\* queue_update, lines 114-116, up to the await of line 119; updates are
\* numbered in the order they are accepted. It runs while no other coroutine
\* does: _process_game_updates is not started or is suspended at line 65.
QueueUpdate ==
    /\ nm.accepted < MaxUpdates
    /\ nm' = [nm EXCEPT !.has_key = TRUE,
                        !.message_queue = Append(@, nm.accepted + 1),
                        !.accepted = @ + 1]
    /\ UNCHANGED <<update_task, delivered>>
    /\ NetworkOnly

\* The list `updates` of the suspended frame.
Updates == IF update_task.updates_is_queue THEN nm.message_queue ELSE <<>>

\* lines 71-75, run when the loop over the players has ended
Finished(n) ==
    [n EXCEPT !.message_queue = IF Updates # <<>> THEN <<>> ELSE @,
              !.has_key = IF Updates # <<>> THEN TRUE ELSE @,
              !.sequence_number = @ + 1]

\* _process_game_updates, lines 47-65: the test (queued updates, or more than
\* 1.0 s since the last package), the package, and the first send begins
Process47 ==
    /\ update_task.pc = "idle"
    /\ nm.sequence_number < MaxPackages
    /\ \E keepalive \in BOOLEAN :
          /\ nm.message_queue # <<>> \/ keepalive
          /\ update_task' = [pc |-> "65",
                             updates_is_queue |-> UpdatesIsQueue(nm.has_key),
                             packed |-> nm.message_queue,
                             seq |-> nm.sequence_number,
                             sending |-> 1]
    /\ UNCHANGED <<nm, delivered>>
    /\ NetworkOnly

\* line 65: the send to a player completes; the next send begins, or the loop
\* has ended and lines 71-75 run
Process65 ==
    /\ update_task.pc = "65"
    /\ delivered' = delivered \cup {[to |-> SessionPlayers[update_task.sending],
                                     seq |-> update_task.seq,
                                     updates |-> update_task.packed]}
    /\ IF update_task.sending < Len(SessionPlayers)
       THEN /\ update_task' = [update_task EXCEPT !.sending = @ + 1]
            /\ UNCHANGED nm
       ELSE /\ update_task' = [update_task EXCEPT !.pc = "idle", !.sending = 0,
                                                  !.updates_is_queue = FALSE,
                                                  !.packed = <<>>]
            /\ nm' = Finished(nm)
    /\ NetworkOnly

NextNetwork ==
    \/ QueueUpdate
    \/ Process47
    \/ Process65

SpecNetwork == Init /\ [][NextNetwork]_vars

\* The packages sent to player that carry update u, by their seq.
PackagesWith(player, u) ==
    {d.seq : d \in {e \in delivered : e.to = player /\ InSeq(e.updates, u)}}

\* C39: every update queue_update accepted is included in exactly one
\* state_update package sent to the session's players, also when it was queued
\* while _process_game_updates was suspended in a send: an update is still
\* queued, or is in the package being sent, or has been sent, and no player is
\* sent it in two packages.
C39_UpdateSentOnce ==
    \A u \in 1..nm.accepted :
        /\ \/ InSeq(nm.message_queue, u)
           \/ update_task.pc = "65" /\ InSeq(update_task.packed, u)
           \/ \A i \in 1..Len(SessionPlayers) : PackagesWith(SessionPlayers[i], u) # {}
        /\ \A i \in 1..Len(SessionPlayers) :
              Cardinality(PackagesWith(SessionPlayers[i], u)) <= 1

\* ------------------------------------------------- LobbyManager: player ids
MaxLobbyClients == 3
MaxLobbyTime == 1
MaxLobbyRooms == 2
LobbyClients == 1..MaxLobbyClients

LobbyOnly ==
    UNCHANGED <<server_vars, client_vars, ui, inbox, g, queue_vars, game, nm,
                update_task, delivered>>

\* d[k] = v of a Python dict
DictSet(d, k, v) == [x \in (DOMAIN d) \cup {k} |-> IF x = k THEN v ELSE d[x]]

\* add_player, line 90: f"player_{len(self.players) + 1}_{int(time.time())}",
\* as the pair of its two numbers (the string determines both)
PlayerId(L, t) == <<Cardinality(DOMAIN L.players) + 1, t>>

\* add_player, lines 88-102
add_player(L, client_id, t) ==
    LET player_id == PlayerId(L, t)
    IN  [L EXCEPT !.players = DictSet(@, player_id, [player_id |-> player_id]),
                  !.client_to_player = DictSet(@, client_id, player_id)]

\* leave_room, lines 191-221
leave_room(L, player_id) ==
    IF player_id \notin DOMAIN L.player_to_room THEN L
    ELSE LET room_id == L.player_to_room[player_id]
         IN  IF room_id \notin DOMAIN L.rooms THEN L
             ELSE LET room == L.rooms[room_id]
                      left ==
                          IF room.host_player = player_id
                          THEN [L EXCEPT !.player_to_room =
                                             IF room.guest_player # <<>>
                                             THEN DictDel(@, room.guest_player) ELSE @,
                                         !.rooms = DictDel(@, room_id)]
                          ELSE [L EXCEPT !.rooms[room_id].guest_player = <<>>,
                                         !.rooms[room_id].status = "waiting"]
                  IN  IF player_id \in DOMAIN left.player_to_room
                      THEN [left EXCEPT !.player_to_room = DictDel(@, player_id)]
                      ELSE [left EXCEPT !.exc = TRUE]      \* line 220: KeyError

\* remove_player, lines 104-125
remove_player(L, client_id) ==
    IF client_id \notin DOMAIN L.client_to_player THEN L
    ELSE LET player_id == L.client_to_player[client_id]
         IN  IF player_id \notin DOMAIN L.players THEN L
             ELSE LET left == leave_room(L, player_id)
                  IN  [left EXCEPT !.players = DictDel(@, player_id),
                                   !.client_to_player = DictDel(@, client_id)]

\* create_room, lines 127-158
create_room(L, host_client_id) ==
    IF host_client_id \notin DOMAIN L.client_to_player THEN L
    ELSE LET player_id == L.client_to_player[host_client_id]
         IN  IF player_id \notin DOMAIN L.players THEN L
             ELSE IF player_id \in DOMAIN L.player_to_room THEN L
             ELSE [L EXCEPT !.rooms = DictSet(@, L.next_room_id,
                                              [host_player |-> player_id,
                                               guest_player |-> <<>>,
                                               status |-> "waiting"]),
                            !.next_room_id = @ + 1,
                            !.player_to_room = DictSet(@, player_id, L.next_room_id)]

\* join_room, lines 160-189 (public rooms)
join_room(L, client_id, room_id) ==
    IF client_id \notin DOMAIN L.client_to_player THEN L
    ELSE LET player_id == L.client_to_player[client_id]
         IN  IF player_id \notin DOMAIN L.players \/ room_id \notin DOMAIN L.rooms THEN L
             ELSE IF player_id \in DOMAIN L.player_to_room THEN L
             ELSE IF ~(L.rooms[room_id].status = "waiting"
                       /\ L.rooms[room_id].guest_player = <<>>) THEN L
             ELSE [L EXCEPT !.rooms[room_id].guest_player = player_id,
                            !.player_to_room = DictSet(@, player_id, room_id)]

\* A client that is not registered registers.
AddPlayer(client_id) ==
    /\ client_id \notin DOMAIN lobby.client_to_player
    /\ lobby' = add_player(lobby, client_id, lobby_time)
    /\ UNCHANGED lobby_time
    /\ LobbyOnly

RemovePlayer(client_id) ==
    /\ client_id \in DOMAIN lobby.client_to_player
    /\ lobby' = remove_player(lobby, client_id)
    /\ UNCHANGED lobby_time
    /\ LobbyOnly

CreateRoom(client_id) ==
    /\ lobby.next_room_id <= MaxLobbyRooms
    /\ lobby' = create_room(lobby, client_id)
    /\ UNCHANGED lobby_time
    /\ LobbyOnly

JoinRoom(client_id, room_id) ==
    /\ lobby' = join_room(lobby, client_id, room_id)
    /\ UNCHANGED lobby_time
    /\ LobbyOnly

\* A second passes.
LobbyTick ==
    /\ lobby_time < MaxLobbyTime
    /\ lobby_time' = lobby_time + 1
    /\ UNCHANGED lobby
    /\ LobbyOnly

NextLobbyManager ==
    \/ \E client_id \in LobbyClients : AddPlayer(client_id)
    \/ \E client_id \in LobbyClients : RemovePlayer(client_id)
    \/ \E client_id \in LobbyClients : CreateRoom(client_id)
    \/ \E client_id \in LobbyClients, room_id \in 1..MaxLobbyRooms :
          JoinRoom(client_id, room_id)
    \/ LobbyTick

SpecLobbyManager == Init /\ [][NextLobbyManager]_vars

\* C40: after any sequence of add_player and remove_player calls, also several
\* within one second, distinct registered clients have distinct player_ids, so
\* that removing one client cannot delete another client's record or room.
C40_DistinctPlayerIds ==
    \A c \in DOMAIN lobby.client_to_player, d \in DOMAIN lobby.client_to_player :
        c # d => lobby.client_to_player[c] # lobby.client_to_player[d]

=============================================================================
